---- MODULE Spec2Model ----
(***************************************************************************)
(* A model of usage_tui's result cache (src/usage_tui/cache.py) and of the *)
(* normalized result model it stores (src/usage_tui/providers/base.py).    *)
(*                                                                         *)
(* Time is a clock of whole seconds.  Optional values (Python's None) are  *)
(* sequences of length 0 or 1: None is << >> and a value v is << v >>.     *)
(***************************************************************************)
EXTENDS Integers, Sequences, FiniteSets, TLC

VARIABLES
    now,            \* the wall clock, seconds (datetime.now(timezone.utc))
    memory_cache,   \* ResultCache._memory_cache: cache key -> optional CacheEntry
    disk,           \* the files of ResultCache._cache_dir: disk path -> optional file
    dir_ok,         \* whether the cache directory can be searched and written
    last,           \* the call that was made last, with what it returned or raised
    last_set,       \* history: per key, the latest Result handed to set
    last_good,      \* history: per key, the latest Result a set wrote to disk in full
    nsets,          \* history: how many set calls were made
    metrics_in,     \* UsageMetrics under evaluation (derived values)
    derived,        \* the derived values computed from metrics_in
    made,           \* the last construction of an error Result: arguments, outcome
    fetched,        \* the last call of an adapter's fetch: arguments, outcome
    tui_window,     \* UsageTUI.window
    configured,     \* per adapter, what its is_configured() returns
    results,        \* UsageTUI.results: source -> the Result on display
    cycle,          \* the position of action_refresh in its loop over the sources
    step,           \* what the last pass of the loop body of action_refresh did
    last_fetch,     \* history: per source, the latest fetch of the poll loop
    threads,        \* two callers inside ResultCache.get: position and locals
    sanitized       \* a raw payload, and _sanitize_raw applied to it once and twice

vars == << now, memory_cache, disk, dir_ok, last, last_set, last_good, nsets,
           metrics_in, derived, made, fetched, tui_window, configured, results,
           cycle, step, last_fetch, threads, sanitized >>

cache_vars == << now, memory_cache, disk, dir_ok, last, last_set, last_good, nsets >>

metric_vars == << metrics_in, derived >>

poll_vars == << tui_window, configured, results, cycle, step, last_fetch >>

(* the variables of the adapters, the poll loop, the interleaved gets and  *)
(* the sanitizer on its own                                                *)
aux_vars == << made, fetched, poll_vars, threads, sanitized >>

----------------------------------------------------------------------------
(* Bounds of the model. *)

MaxTime == 120

MaxSets == 2

----------------------------------------------------------------------------
(* Optional values. *)

None == << >>

Some(v) == << v >>

IsNone(o) == o = << >>

Val(o) == o[1]

----------------------------------------------------------------------------
(* providers/base.py: the enumerations. *)

WindowPeriod == {"1d", "7d", "30d"}

ProviderName == {"claude", "openai", "copilot", "codex"}

(* The (source, window) pairs the cache is driven with: a source of the    *)
(* TTL table and one that takes the default TTL.                           *)
ModelKeys == {<<"claude", "7d">>, <<"codex", "1d">>}

ModelSources == {pw[1] : pw \in ModelKeys}

ModelWindows == {pw[2] : pw \in ModelKeys}

----------------------------------------------------------------------------
(* Timestamps.  A datetime is its wall-clock reading in seconds, whether   *)
(* it carries a tzinfo, and the UTC offset of that tzinfo.  The instant a  *)
(* datetime denotes is its wall-clock reading minus its offset; a naive    *)
(* datetime is UTC by the data model's convention.                         *)

DateTime(wall, aware, off) == [wall |-> wall, aware |-> aware, off |-> off]

Instant(dt) == dt.wall - dt.off

(* datetime.now(timezone.utc) *)
NowUtc(t) == DateTime(t, TRUE, 0)

(* datetime.utcnow(): naive *)
UtcNow(t) == DateTime(t, FALSE, 0)

(* dt.replace(tzinfo=timezone.utc): the wall-clock fields are kept and the *)
(* tzinfo is overwritten; no conversion takes place.                       *)
ReplaceTzUtc(dt) == DateTime(dt.wall, TRUE, 0)

(* a - b for two aware datetimes, in seconds *)
SecondsBetween(a, b) == Instant(a) - Instant(b)

----------------------------------------------------------------------------
(* providers/base.py: UsageMetrics and its derived values.  A quotient is  *)
(* kept exact, as numerator and denominator.                               *)

UsageMetrics(cost, requests, input_tokens, output_tokens, remaining, limit, reset_at) ==
    [cost |-> cost, requests |-> requests, input_tokens |-> input_tokens,
     output_tokens |-> output_tokens, remaining |-> remaining, limit |-> limit,
     reset_at |-> reset_at]

(* UsageMetrics(): every field at its default *)
EmptyMetrics == UsageMetrics(None, None, None, None, None, None, None)

Ratio(num, den) == [num |-> num, den |-> den]

(* whether the quotient q equals the integer n *)
RatioIs(q, n) == q.num = n * q.den

(* the guard of usage_percent that returns None before dividing *)
limit_unusable(limit) == IsNone(limit) \/ Val(limit) = 0

(* a guard that also refuses a negative limit *)
limit_unusable_positive_only(limit) == IsNone(limit) \/ Val(limit) <= 0

usage_percent_no_remaining_check(m) ==
    IF limit_unusable(m.limit) THEN None
    ELSE IF IsNone(m.remaining) THEN Some(Ratio(Val(m.limit) * 100, Val(m.limit)))
    ELSE Some(Ratio((Val(m.limit) - Val(m.remaining)) * 100, Val(m.limit)))

usage_percent(m) ==
    IF limit_unusable(m.limit) THEN None
    ELSE IF ~IsNone(m.remaining)
         THEN Some(Ratio((Val(m.limit) - Val(m.remaining)) * 100, Val(m.limit)))
         ELSE None

(* x or 0 *)
OrZero(o) == IF IsNone(o) \/ Val(o) = 0 THEN 0 ELSE Val(o)

(* a total that needs both operands *)
total_tokens_both_required(m) ==
    IF IsNone(m.input_tokens) \/ IsNone(m.output_tokens) THEN None
    ELSE Some(Val(m.input_tokens) + Val(m.output_tokens))

total_tokens(m) ==
    IF IsNone(m.input_tokens) /\ IsNone(m.output_tokens) THEN None
    ELSE Some(OrZero(m.input_tokens) + OrZero(m.output_tokens))

----------------------------------------------------------------------------
(* providers/base.py: ProviderResult. *)

ProviderResult(provider, window, metrics, updated_at, raw, error) ==
    [provider |-> provider, window |-> window, metrics |-> metrics,
     updated_at |-> updated_at, raw |-> raw, error |-> error]

is_error(result) == ~IsNone(result.error)

----------------------------------------------------------------------------
(* Raw payloads: JSON-like trees.  A node is a leaf (a string or number,   *)
(* kept as text), a dict (its items in insertion order, each a key and a   *)
(* node) or a list of nodes.                                               *)

Leaf(v) == [t |-> "leaf", v |-> v, kids |-> << >>]

Dict(items) == [t |-> "dict", v |-> "", kids |-> items]

List(items) == [t |-> "list", v |-> "", kids |-> items]

Item(k, node) == [k |-> k, val |-> node]

REDACTED == "[REDACTED]"

sensitive_keys == {"token", "key", "secret", "password", "authorization"}

(* str.lower() on the key texts the payloads of the model use *)
Lower(k) ==
    CASE k = "Token" -> "token"
      [] k = "Authorization" -> "authorization"
      [] k = "API_KEY" -> "api_key"
      [] OTHER -> k

(* a comparison that forgets to lowercase the key *)
is_sensitive_case_sensitive(k) == k \in sensitive_keys

(* whether _sanitize_raw replaces the value under key k *)
is_sensitive(k) == Lower(k) \in sensitive_keys

RECURSIVE clean(_)
clean(obj) ==
    IF obj.t = "dict"
    THEN [obj EXCEPT !.kids =
            [i \in DOMAIN obj.kids |->
                Item(obj.kids[i].k,
                     IF is_sensitive(obj.kids[i].k) THEN Leaf(REDACTED)
                     ELSE clean(obj.kids[i].val))]]
    ELSE IF obj.t = "list"
    THEN [obj EXCEPT !.kids = [i \in DOMAIN obj.kids |-> clean(obj.kids[i])]]
    ELSE obj

(* a clean that walks mappings only and leaves lists as they are *)
RECURSIVE clean_dicts_only(_)
clean_dicts_only(obj) ==
    IF obj.t = "dict"
    THEN [obj EXCEPT !.kids =
            [i \in DOMAIN obj.kids |->
                Item(obj.kids[i].k,
                     IF is_sensitive(obj.kids[i].k) THEN Leaf(REDACTED)
                     ELSE clean_dicts_only(obj.kids[i].val))]]
    ELSE obj

sanitize_raw_shallow(raw) == clean_dicts_only(raw)

(* a clean that keeps the text of a redacted leaf after the marker *)
RECURSIVE clean_masking(_)
clean_masking(obj) ==
    IF obj.t = "dict"
    THEN [obj EXCEPT !.kids =
            [i \in DOMAIN obj.kids |->
                Item(obj.kids[i].k,
                     IF is_sensitive(obj.kids[i].k)
                     THEN Leaf(REDACTED \o obj.kids[i].val.v)
                     ELSE clean_masking(obj.kids[i].val))]]
    ELSE IF obj.t = "list"
    THEN [obj EXCEPT !.kids = [i \in DOMAIN obj.kids |-> clean_masking(obj.kids[i])]]
    ELSE obj

sanitize_raw_masking(raw) == clean_masking(raw)

sanitize_raw(raw) == clean(raw)

----------------------------------------------------------------------------
(* Exceptions, by class name, and Python's except clause. *)

Superclasses(exc) ==
    CASE exc = "PermissionError" -> {"PermissionError", "OSError", "IOError", "Exception"}
      [] exc = "OSError" -> {"OSError", "IOError", "Exception"}
      [] exc = "JSONDecodeError" -> {"JSONDecodeError", "ValueError", "Exception"}
      [] exc = "ValidationError" -> {"ValidationError", "ValueError", "Exception"}
      [] exc = "KeyError" -> {"KeyError", "LookupError", "Exception"}
      [] exc = "AuthenticationError" -> {"AuthenticationError", "ProviderError", "Exception"}
      [] exc = "ProviderError" -> {"ProviderError", "Exception"}
      [] exc = "TimeoutException" ->
            {"TimeoutException", "TransportError", "RequestError", "HTTPError", "Exception"}
      [] exc = "ConnectError" ->
            {"ConnectError", "NetworkError", "TransportError", "RequestError", "HTTPError",
             "Exception"}
      [] OTHER -> {exc, "Exception"}

Caught(exc, handlers) == Superclasses(exc) \cap handlers # {}

(* cache.py:155 *)
save_handlers == {"OSError", "IOError"}

(* cache.py:185 *)
load_handlers == {"OSError", "IOError", "JSONDecodeError", "ValueError"}

(* an except clause that forgets pydantic's validation error *)
load_handlers_io_only == {"OSError", "IOError", "JSONDecodeError"}

(* what a call hands back: a value, or the exception that left it *)
Returned(v) == [val |-> v, exc |-> None]

Raised(e) == [val |-> None, exc |-> Some(e)]

----------------------------------------------------------------------------
(* The files of the cache directory.  A file is the JSON text of a Result  *)
(* (kind "json"), text that is no JSON document (kind "garbage": an empty  *)
(* or cut-off file), or a file that cannot be opened (kind "unreadable").  *)

JsonFile(doc) == [kind |-> "json", doc |-> doc]

GarbageFile == [kind |-> "garbage", doc |-> << >>]

UnreadableFile == [kind |-> "unreadable", doc |-> << >>]

(* result.model_dump_json(): every field under its name; an enumeration    *)
(* member as its value, a datetime as ISO text (which keeps whether it has *)
(* an offset, and which), None as null.                                    *)
model_dump_json(result) ==
    [provider |-> result.provider, window |-> result.window,
     metrics |-> result.metrics, updated_at |-> result.updated_at,
     raw |-> result.raw, error |-> result.error]

(* ProviderResult.model_validate(data): the enumeration fields must name a *)
(* member, or validation fails.                                            *)
model_validate(data) ==
    IF data.provider \in ProviderName /\ data.window \in WindowPeriod
    THEN Returned(Some(ProviderResult(data.provider, data.window, data.metrics,
                                      data.updated_at, data.raw, data.error)))
    ELSE Raised("ValidationError")

----------------------------------------------------------------------------
(* cache.py: CacheEntry and the TTL table. *)

DEFAULT_TTL == 120

(* ProviderName.OPENROUTER is named by the table and is no member of the   *)
(* enumeration in providers/base.py.                                       *)
PROVIDER_TTLS ==
    [p \in {"claude", "openai", "openrouter", "copilot"} |->
        CASE p = "claude" -> 60
          [] p = "openai" -> 180
          [] p = "openrouter" -> 180
          [] p = "copilot" -> 300]

(* self.PROVIDER_TTLS.get(provider, self.DEFAULT_TTL) *)
ttl_for(provider) ==
    IF provider \in DOMAIN PROVIDER_TTLS THEN PROVIDER_TTLS[provider] ELSE DEFAULT_TTL

CacheEntry(result, cached_at, ttl_seconds) ==
    [result |-> result, cached_at |-> cached_at, ttl_seconds |-> ttl_seconds]

(* an expiry test that is off by one at the boundary *)
is_expired_at_boundary(entry, t) ==
    Instant(NowUtc(t)) >= Instant(ReplaceTzUtc(entry.cached_at)) + entry.ttl_seconds

is_expired(entry, t) ==
    Instant(NowUtc(t)) > Instant(ReplaceTzUtc(entry.cached_at)) + entry.ttl_seconds

(* a key that leaves the window out *)
cache_key_source_only(provider, window) == provider

cache_key(provider, window) == provider \o ":" \o window

disk_path(provider, window) == provider \o "_" \o window \o ".json"

(* key.split(":") on a key made by cache_key *)
split_key(key) ==
    CHOOSE pw \in ProviderName \X WindowPeriod : cache_key(pw[1], pw[2]) = key

(* a dict with the item at key k set, and with it deleted *)
Put(d, k, v) == [x \in DOMAIN d \cup {k} |-> IF x = k THEN v ELSE d[x]]

Del(d, k) == [x \in DOMAIN d \ {k} |-> d[x]]

EmptyDict == [x \in {} |-> << >>]

----------------------------------------------------------------------------
(* cache.py: the disk tier. *)

(* path.exists(): pathlib's stat swallows a missing file and lets other    *)
(* errors through, so a directory that cannot be searched raises           *)
(* PermissionError.                                                        *)
path_exists(path) ==
    IF ~dir_ok THEN Raised("PermissionError") ELSE Returned(path \in DOMAIN disk)

(* a disk-age test that measures every source by the default TTL *)
disk_fresh_by_default_ttl(result, provider, t) ==
    SecondsBetween(NowUtc(t), ReplaceTzUtc(result.updated_at)) <= DEFAULT_TTL

(* the disk-age test of _load_from_disk, lines 179-181 *)
disk_fresh(result, provider, t) ==
    SecondsBetween(NowUtc(t), ReplaceTzUtc(result.updated_at)) <= ttl_for(provider)

(* the body of the try of _load_from_disk, lines 171-184 *)
load_try(provider, window, ignore_ttl) ==
    LET f == disk[disk_path(provider, window)]
    IN  IF f.kind = "unreadable" THEN Raised("PermissionError")
        ELSE IF f.kind = "garbage" THEN Raised("JSONDecodeError")
        ELSE LET v == model_validate(f.doc)
             IN  IF ~IsNone(v.exc) THEN v
                 ELSE IF ignore_ttl THEN v
                 ELSE IF disk_fresh(Val(v.val), provider, now) THEN v
                 ELSE Returned(None)

(* a load that applies the TTL also when told to ignore it *)
load_from_disk_ttl_always(provider, window, ignore_ttl) ==
    LET e == path_exists(disk_path(provider, window))
    IN  IF ~IsNone(e.exc) THEN e
        ELSE IF ~e.val THEN Returned(None)
        ELSE LET r == load_try(provider, window, FALSE)
             IN  IF IsNone(r.exc) THEN r
                 ELSE IF Caught(Val(r.exc), load_handlers) THEN Returned(None)
                 ELSE r

load_from_disk(provider, window, ignore_ttl) ==
    LET e == path_exists(disk_path(provider, window))
    IN  IF ~IsNone(e.exc) THEN e
        ELSE IF ~e.val THEN Returned(None)
        ELSE LET r == load_try(provider, window, ignore_ttl)
             IN  IF IsNone(r.exc) THEN r
                 ELSE IF Caught(Val(r.exc), load_handlers) THEN Returned(None)
                 ELSE r

(* result.model_copy(deep=True) with raw replaced by _sanitize_raw(raw) *)
sanitized_copy(result) == [result EXCEPT !.raw = sanitize_raw(result.raw)]

(* The ways the write of _save_to_disk can go: "ok"; "open_fails" (open    *)
(* raises: the file is as it was); "write_fails" (open has truncated the   *)
(* file and write or close raises: the file is left empty or cut off).     *)
IoOutcomes == {"ok", "open_fails", "write_fails"}

(* a save that leaves a file that is already there as it is *)
save_to_disk_keep_existing(result, io) ==
    LET path == disk_path(result.provider, result.window)
    IN  IF path \in DOMAIN disk \/ ~dir_ok \/ io # "ok" THEN disk
        ELSE Put(disk, path, JsonFile(model_dump_json(sanitized_copy(result))))

(* the files after _save_to_disk(result); the OSError of a failed open or  *)
(* write is caught by the except clause of line 155                        *)
save_to_disk(result, io) ==
    LET path == disk_path(result.provider, result.window)
        blocked == ~dir_ok \/ io = "open_fails"
                   \/ (path \in DOMAIN disk /\ disk[path].kind = "unreadable")
    IN  IF blocked THEN disk
        ELSE IF io = "write_fails" THEN Put(disk, path, GarbageFile)
        ELSE Put(disk, path, JsonFile(model_dump_json(sanitized_copy(result))))

(* whether _save_to_disk(result) leaves the whole Result in the file *)
save_succeeds(result, io) ==
    LET path == disk_path(result.provider, result.window)
    IN  /\ dir_ok
        /\ io = "ok"
        /\ ~(path \in DOMAIN disk /\ disk[path].kind = "unreadable")

(* a set that persists every result *)
persists_everything(result) == TRUE

(* the test of line 110: which results set persists *)
persists(result) == ~is_error(result)

----------------------------------------------------------------------------
(* cache.py: the memory tier. *)

(* whether get serves (provider, window) from the memory tier, lines 85-87 *)
memory_hit(key) ==
    key \in DOMAIN memory_cache /\ ~is_expired(memory_cache[key], now)

(* a get that puts the Result it read from the file into the memory tier *)
memory_after_get_promotes(key) ==
    LET pw == split_key(key)
        loaded == load_from_disk(pw[1], pw[2], FALSE)
        missed == key \notin DOMAIN memory_cache \/ is_expired(memory_cache[key], now)
    IN  IF missed /\ ~IsNone(loaded.val)
        THEN Put(memory_cache, key, CacheEntry(Val(loaded.val), NowUtc(now), ttl_for(pw[1])))
        ELSE IF missed THEN Del(memory_cache, key)
        ELSE memory_cache

(* a get that empties the memory tier when the entry has expired *)
memory_after_get_clears_all(key) ==
    IF key \in DOMAIN memory_cache /\ is_expired(memory_cache[key], now)
    THEN EmptyDict
    ELSE memory_cache

(* the memory tier after get: an expired entry is deleted, line 88 *)
memory_after_get(key) ==
    IF key \in DOMAIN memory_cache /\ is_expired(memory_cache[key], now)
    THEN Del(memory_cache, key)
    ELSE memory_cache

(* an entry whose Result the save has redacted in place: the entry holds   *)
(* the object that was handed to set, not a copy of it                     *)
new_entry_redacted_in_place(result, t) ==
    CacheEntry(IF persists(result) THEN sanitized_copy(result) ELSE result,
               NowUtc(t), ttl_for(result.provider))

(* an entry that takes the default TTL whatever the source *)
new_entry_default_ttl(result, t) == CacheEntry(result, NowUtc(t), DEFAULT_TTL)

(* the entry set stores, lines 100-106 *)
new_entry(result, t) == CacheEntry(result, NowUtc(t), ttl_for(result.provider))

(* a test that takes an entry matching either argument *)
invalidate_matches_either(key, provider, window) ==
    LET pw == split_key(key)
    IN  \/ (~IsNone(provider) /\ pw[1] = Val(provider))
        \/ (~IsNone(window) /\ pw[2] = Val(window))

(* whether invalidate(provider, window) removes the entry at key, line 139 *)
invalidate_matches(key, provider, window) ==
    LET pw == split_key(key)
    IN  /\ (IsNone(provider) \/ pw[1] = Val(provider))
        /\ (IsNone(window) \/ pw[2] = Val(window))

(* an invalidate that clears nothing *)
memory_after_invalidate_noop(provider, window) == memory_cache

(* the memory tier after invalidate(provider, window), lines 131-143 *)
memory_after_invalidate(provider, window) ==
    IF IsNone(provider) /\ IsNone(window) THEN EmptyDict
    ELSE [k \in {x \in DOMAIN memory_cache : ~invalidate_matches(x, provider, window)}
            |-> memory_cache[k]]

----------------------------------------------------------------------------
(* The Results the cache is driven with. *)

(* how long before the set call the Result was constructed, at most *)
FetchLag == 1

(* the UTC offset, in seconds, of a timestamp that is not in UTC *)
TzOffset == 3600

(* test_workflow.py: create_mock_claude_result *)
QuotaMetrics ==
    UsageMetrics(None, None, None, None, Some(38), Some(100), Some(NowUtc(13320)))

PlainRaw == Dict(<< Item("used", Leaf("62.0")), Item("limit", Leaf("100.0")) >>)

(* a payload with sensitive keys at the top, under a mapping in a list and *)
(* in mixed case, and with keys that only contain a sensitive word         *)
SecretRaw ==
    Dict(<< Item("authorization", Leaf("Bearer xyz")),
            Item("amount", Leaf("5")),
            Item("data", List(<< Dict(<< Item("Token", Leaf("tok-1")),
                                         Item("access_token", Leaf("at-1")) >>),
                                 Leaf("7") >>)) >>)

(* an error Result that forgets the raw it is given *)
make_error_result_drops_raw(provider, window, error, raw, updated_at) ==
    ProviderResult(provider, window, EmptyMetrics, updated_at, Dict(<< >>), Some(error))

(* BaseProvider._make_error_result; raw is None or a mapping, and          *)
(* "raw or {}" takes the empty mapping for None and for an empty mapping   *)
make_error_result(provider, window, error, raw, updated_at) ==
    ProviderResult(provider, window, EmptyMetrics, updated_at,
                   IF IsNone(raw) \/ Val(raw).kids = << >> THEN Dict(<< >>) ELSE Val(raw),
                   Some(error))

(* the Results a caller hands to set at time t for (provider, window):     *)
(* fresh from the adapter, constructed a little before the call, an error  *)
(* Result, and one whose updated_at carries a UTC offset                   *)
FreshResult(provider, window, t) ==
    ProviderResult(provider, window, QuotaMetrics, UtcNow(t), PlainRaw, None)

LaggedSecretResult(provider, window, t) ==
    ProviderResult(provider, window, QuotaMetrics, UtcNow(t - FetchLag), SecretRaw, None)

ErrorResult(provider, window, t) ==
    make_error_result(provider, window, "HTTP 401", None, UtcNow(t))

OffsetResult(provider, window, t) ==
    ProviderResult(provider, window, QuotaMetrics,
                   DateTime(t - TzOffset, TRUE, 0 - TzOffset), PlainRaw, None)

ResultInputs(provider, window, t) ==
    { FreshResult(provider, window, t), LaggedSecretResult(provider, window, t),
      ErrorResult(provider, window, t), OffsetResult(provider, window, t) }

(* the set calls of the model: every Result with a write that works, and   *)
(* the fresh Result also with each way the write can fail                  *)
SetInputs(provider, window, t) ==
    {<<r, "ok">> : r \in ResultInputs(provider, window, t)}
    \cup {<<FreshResult(provider, window, t), io>> : io \in IoOutcomes}

----------------------------------------------------------------------------
(* The record of the last call. *)

Log(op, provider, window, out, tier) ==
    [op |-> op, provider |-> provider, window |-> window,
     val |-> out.val, exc |-> out.exc, tier |-> tier]

NoCall == Log("none", "*", "*", Returned(None), "none")

ArgText(o) == IF IsNone(o) THEN "*" ELSE Val(o)

----------------------------------------------------------------------------
(* The operations of ResultCache. *)

(* ResultCache.get, lines 76-91 *)
Get(provider, window) ==
    LET key == cache_key(provider, window)
    IN  /\ IF memory_hit(key)
           THEN last' = Log("get", provider, window,
                            Returned(Some(memory_cache[key].result)), "memory")
           ELSE last' = Log("get", provider, window,
                            load_from_disk(provider, window, FALSE), "disk")
        /\ memory_cache' = memory_after_get(key)
        /\ UNCHANGED << now, disk, dir_ok, last_set, last_good, nsets, metric_vars, aux_vars >>

(* ResultCache.set, lines 93-111, with _save_to_disk, lines 145-157 *)
Set(result, io) ==
    LET key == cache_key(result.provider, result.window)
        wrote == persists(result) /\ save_succeeds(result, io)
    IN  /\ nsets < MaxSets
        /\ nsets' = nsets + 1
        /\ memory_cache' = Put(memory_cache, key, new_entry(result, now))
        /\ disk' = IF persists(result) THEN save_to_disk(result, io) ELSE disk
        /\ last' = Log("set", result.provider, result.window,
                       Returned(Some(result)), "none")
        /\ last_set' = Put(last_set, key, [result |-> result, at |-> now, wrote |-> wrote])
        /\ last_good' = IF wrote THEN Put(last_good, key, sanitized_copy(result))
                        ELSE last_good
        /\ UNCHANGED << now, dir_ok, metric_vars, aux_vars >>

(* ResultCache.get_last_good, lines 113-119 *)
GetLastGood(provider, window) ==
    /\ last' = Log("get_last_good", provider, window,
                   load_from_disk(provider, window, TRUE), "disk")
    /\ UNCHANGED << now, memory_cache, disk, dir_ok, last_set, last_good, nsets,
                    metric_vars, aux_vars >>

(* ResultCache.invalidate, lines 121-143; an argument is None or a member *)
Invalidate(provider, window) ==
    /\ memory_cache' = memory_after_invalidate(provider, window)
    /\ last' = Log("invalidate", ArgText(provider), ArgText(window),
                   Returned(None), "none")
    /\ UNCHANGED << now, disk, dir_ok, last_set, last_good, nsets, metric_vars, aux_vars >>

(* The process ends and a new one constructs its ResultCache, lines 46-56: *)
(* the memory tier starts empty over the same directory.                   *)
Restart ==
    /\ memory_cache' = EmptyDict
    /\ last' = Log("restart", "*", "*", Returned(None), "none")
    /\ UNCHANGED << now, disk, dir_ok, last_set, last_good, nsets, metric_vars, aux_vars >>

(* Time passes. *)
TickStep == PROVIDER_TTLS["claude"]

Tick ==
    /\ now + TickStep <= MaxTime
    /\ now' = now + TickStep
    /\ last' = Log("tick", "*", "*", Returned(None), "none")
    /\ UNCHANGED << memory_cache, disk, dir_ok, last_set, last_good, nsets, metric_vars, aux_vars >>

OptionalOf(S) == {None} \cup {Some(x) : x \in S}

InitCache ==
    /\ now = 0
    /\ memory_cache = EmptyDict
    /\ disk = EmptyDict
    /\ dir_ok = TRUE
    /\ last = NoCall
    /\ last_set = EmptyDict
    /\ last_good = EmptyDict
    /\ nsets = 0

NotDerived == [computed |-> FALSE, usage_percent |-> None, total_tokens |-> None]

InitMetricsIdle ==
    /\ metrics_in = EmptyMetrics
    /\ derived = NotDerived

(* the adapters whose code is in providers/ *)
AdapterNames == {"claude", "openai", "codex"}

NotMade ==
    [kind |-> "none", provider |-> "*", window |-> "*", error |-> None, raw |-> None,
     out |-> Returned(None), is_error |-> FALSE]

NotFetched ==
    [adapter |-> "none", window |-> "*", is_configured |-> FALSE, refresh |-> None,
     requests |-> << >>, out |-> Returned(None)]

(* action_refresh is not running; n counts the times it was started, and   *)
(* switched tells whether a window action started it the last time         *)
IdleCycle == [pos |-> 0, n |-> 0, switched |-> FALSE]

NoStep ==
    [kind |-> "none", provider |-> "*", is_configured |-> FALSE, get_called |-> FALSE,
     got |-> None, fetch_called |-> FALSE, fetch_out |-> Returned(None),
     set_called |-> FALSE, set_arg |-> None, shown |-> None]

InitAdaptersIdle ==
    /\ made = NotMade
    /\ fetched = NotFetched

InitPollIdle ==
    /\ tui_window = "7d"
    /\ configured = EmptyDict
    /\ results = EmptyDict
    /\ cycle = IdleCycle
    /\ step = NoStep
    /\ last_fetch = EmptyDict

(* no get is under way *)
NoRace ==
    [provider |-> "*", window |-> "*", pc |-> << "idle", "idle" >>,
     entry |-> << None, None >>, out |-> << Returned(None), Returned(None) >>,
     one_get |-> Returned(None), memory_after |-> EmptyDict, disk_before |-> EmptyDict]

InitThreadsIdle == threads = NoRace

NotSanitized ==
    [done |-> FALSE, input |-> Dict(<< >>), once |-> Dict(<< >>), twice |-> Dict(<< >>)]

InitSanitizedIdle == sanitized = NotSanitized

InitAuxIdle ==
    /\ InitAdaptersIdle
    /\ InitPollIdle
    /\ InitThreadsIdle
    /\ InitSanitizedIdle

Init == InitCache /\ InitMetricsIdle /\ InitAuxIdle

Next ==
    \/ \E pw \in ModelKeys : Get(pw[1], pw[2])
    \/ \E pw \in ModelKeys :
         \E c \in SetInputs(pw[1], pw[2], now) : Set(c[1], c[2])
    \/ \E pw \in ModelKeys : GetLastGood(pw[1], pw[2])
    \/ \E p \in OptionalOf(ModelSources), w \in OptionalOf(ModelWindows) : Invalidate(p, w)
    \/ Restart
    \/ Tick

Spec == Init /\ [][Next]_vars

----------------------------------------------------------------------------
(* The cache over a directory that already holds files when the process    *)
(* starts: files of another schema version, cut-off or unreadable files,   *)
(* in a directory that may not be searchable.                              *)

(* the file of a Result whose window is no member of WindowPeriod here     *)
(* (tui.py names WindowPeriod.HOUR_5)                                      *)
OtherSchemaFile(provider) ==
    JsonFile(model_dump_json(
        ProviderResult(provider, "5h", QuotaMetrics, UtcNow(0), PlainRaw, None)))

StoredFile(provider, window) ==
    JsonFile(model_dump_json(sanitized_copy(FreshResult(provider, window, 0))))

FoundFiles(provider, window) ==
    { GarbageFile, UnreadableFile, OtherSchemaFile(provider), StoredFile(provider, window) }

FaultKey == <<"claude", "7d">>

InitFaults ==
    /\ now = 0
    /\ memory_cache = EmptyDict
    /\ \/ disk = EmptyDict
       \/ \E f \in FoundFiles(FaultKey[1], FaultKey[2]) :
            disk = Put(EmptyDict, disk_path(FaultKey[1], FaultKey[2]), f)
    /\ dir_ok \in BOOLEAN
    /\ last = NoCall
    /\ last_set = EmptyDict
    /\ last_good = EmptyDict
    /\ nsets = 0
    /\ InitMetricsIdle
    /\ InitAuxIdle

SpecFaults == InitFaults /\ [][Next]_vars

----------------------------------------------------------------------------
(* The cache driven with pairs that share a source and pairs that share a  *)
(* window.                                                                 *)

KeyPairs == ModelSources \X ModelWindows

(* a Result fresh from the adapter, or an error Result; the write works *)
KeyInputs(provider, window, t) ==
    { <<FreshResult(provider, window, t), "ok">>, <<ErrorResult(provider, window, t), "ok">> }

NextKeys ==
    \/ \E pw \in KeyPairs : Get(pw[1], pw[2])
    \/ \E pw \in KeyPairs :
         \E c \in KeyInputs(pw[1], pw[2], now) : Set(c[1], c[2])
    \/ \E pw \in KeyPairs : GetLastGood(pw[1], pw[2])
    \/ \E p \in OptionalOf(ModelSources), w \in OptionalOf(ModelWindows) : Invalidate(p, w)
    \/ Restart

SpecKeys == Init /\ [][NextKeys]_vars

----------------------------------------------------------------------------
(* The derived values of UsageMetrics, on their own. *)

LimitInputs == OptionalOf({0 - 100, 0, 50, 100})

RemainingInputs == OptionalOf({0 - 10, 0, 38, 100, 150})

InputTokenInputs == OptionalOf({0, 450000})

OutputTokenInputs == OptionalOf({125000})

MetricInputs ==
    { UsageMetrics(None, None, i, o, r, l, None) :
        i \in InputTokenInputs, o \in OutputTokenInputs,
        r \in RemainingInputs, l \in LimitInputs }

(* reading the properties usage_percent and total_tokens of metrics_in *)
Derive ==
    /\ ~derived.computed
    /\ derived' = [computed |-> TRUE, usage_percent |-> usage_percent(metrics_in),
                   total_tokens |-> total_tokens(metrics_in)]
    /\ UNCHANGED << metrics_in, cache_vars, aux_vars >>

(* another UsageMetrics is constructed *)
Construct ==
    /\ derived.computed
    /\ metrics_in' \in MetricInputs
    /\ derived' = NotDerived
    /\ UNCHANGED << cache_vars, aux_vars >>

InitMetrics ==
    /\ InitCache
    /\ metrics_in \in MetricInputs
    /\ derived = NotDerived
    /\ InitAuxIdle

NextMetrics == Derive \/ Construct

SpecMetrics == InitMetrics /\ [][NextMetrics]_vars

----------------------------------------------------------------------------
(* The construction of Results, on its own. *)

(* ProviderResult(...): pydantic validates the enumeration fields *)
construct(result) ==
    IF result.provider \in ProviderName /\ result.window \in WindowPeriod
    THEN Returned(Some(result))
    ELSE Raised("ValidationError")

(* the messages the adapters and the poll loop give an error Result; the   *)
(* text of an exception that has no arguments is empty                     *)
ErrorMessages ==
    {"Request timed out", "Rate limited. Try again later.", "API error: HTTP 500", ""}

(* claude_oauth.py:107 *)
StatusRaw == Dict(<< Item("status_code", Leaf("429")) >>)

RawArguments == OptionalOf({Dict(<< >>), StatusRaw, SecretRaw})

(* provider._make_error_result(window, error, raw) *)
MakeError(provider, window, error, raw) ==
    LET out == construct(make_error_result(provider, window, error, raw, UtcNow(now)))
    IN  /\ made' = [kind |-> "error", provider |-> provider, window |-> window,
                    error |-> Some(error), raw |-> raw, out |-> out,
                    is_error |-> IF IsNone(out.exc) THEN is_error(Val(out.val)) ELSE FALSE]
        /\ UNCHANGED << cache_vars, metric_vars, fetched, poll_vars, threads, sanitized >>

(* ProviderResult(provider=..., window=..., metrics=..., raw=...) *)
MakeResult(provider, window) ==
    LET out == construct(FreshResult(provider, window, now))
    IN  /\ made' = [kind |-> "result", provider |-> provider, window |-> window,
                    error |-> None, raw |-> Some(PlainRaw), out |-> out,
                    is_error |-> IF IsNone(out.exc) THEN is_error(Val(out.val)) ELSE FALSE]
        /\ UNCHANGED << cache_vars, metric_vars, fetched, poll_vars, threads, sanitized >>

NextErrors ==
    \/ \E p \in AdapterNames, w \in WindowPeriod, e \in ErrorMessages, r \in RawArguments :
         MakeError(p, w, e, r)
    \/ \E p \in AdapterNames, w \in WindowPeriod : MakeResult(p, w)

SpecErrors == Init /\ [][NextErrors]_vars

----------------------------------------------------------------------------
(* providers/: the adapters.  What the network does to a request is an     *)
(* HTTP response (a status and a body), a timeout or a connection error.   *)

Http(status, body) == [kind |-> "http", status |-> status, body |-> body]

Timeout == [kind |-> "timeout", status |-> 0, body |-> ""]

NetworkError == [kind |-> "network", status |-> 0, body |-> ""]

(* the expected JSON document, a body that is no JSON, and the body of the *)
(* 403 that names the missing OAuth scope                                  *)
JsonBody == "{...}"

(* a JSON document without the window the shorter periods are read from    *)
(* (Claude: five_hour) or the longer ones (Codex: secondary_window)        *)
PartialBody == "{partial}"

HtmlBody == "<html>"

ScopeBody == "missing scope user:profile"

(* "user:profile" in error_body *)
names_scope(body) == body = ScopeBody

Responses ==
    { Http(200, JsonBody), Http(200, PartialBody), Http(200, HtmlBody),
      Http(401, ""), Http(403, ScopeBody),
      Http(403, "forbidden"), Http(429, ""), Http(500, "oops"), Timeout, NetworkError }

(* await client.get(...): the response, or the exception httpx raises *)
client_get(resp) ==
    IF resp.kind = "timeout" THEN Raised("TimeoutException")
    ELSE IF resp.kind = "network" THEN Raised("ConnectError")
    ELSE Returned(Some(resp))

(* response.json() *)
response_json(resp, data) ==
    IF resp.body \in {JsonBody, PartialBody} THEN Returned(Some(data))
    ELSE Raised("JSONDecodeError")

(* raw={"status_code": response.status_code, "body": response.text} *)
status_raw(resp) ==
    Dict(<< Item("status_code", Leaf(ToString(resp.status))), Item("body", Leaf(resp.body)) >>)

(* the except clauses every fetch ends with: AuthenticationError is raised *)
(* again, a timeout and a request error give an error Result, and every    *)
(* other exception is raised as ProviderError                              *)
fetch_except(name, window, out, t) ==
    IF IsNone(out.exc) THEN out
    ELSE IF Caught(Val(out.exc), {"AuthenticationError"}) THEN out
    ELSE IF Caught(Val(out.exc), {"TimeoutException"})
    THEN Returned(Some(make_error_result(name, window, "Request timed out", None, UtcNow(t))))
    ELSE IF Caught(Val(out.exc), {"RequestError"})
    THEN Returned(Some(make_error_result(name, window, "Network error: " \o Val(out.exc),
                                         None, UtcNow(t))))
    ELSE Raised("ProviderError")

NotConfigured(name, window, t) ==
    Returned(Some(make_error_result(name, window, "Not configured", None, UtcNow(t))))

(* The bodies of the model: utilization per window for Claude, usage and   *)
(* cost buckets for OpenAI, used_percent per window for Codex.             *)
ClaudeData ==
    [five_hour |-> Some([utilization |-> 61, resets_at |-> 18000]),
     seven_day |-> Some([utilization |-> 22, resets_at |-> 604800])]

(* the payload as the raw tree of the Result *)
WindowRaw(name, amount, window_data) ==
    Dict(<< Item(name, Leaf(ToString(window_data[name]))),
            Item(amount, Leaf(ToString(window_data[amount]))) >>)

(* the document of a body: the one of PartialBody has no five_hour *)
claude_document(body) ==
    IF body = PartialBody THEN [ClaudeData EXCEPT !.five_hour = None] ELSE ClaudeData

ClaudeRaw(data) ==
    Dict((IF IsNone(data.five_hour) THEN << >>
          ELSE << Item("five_hour",
                       WindowRaw("utilization", "resets_at", Val(data.five_hour))) >>)
         \o (IF IsNone(data.seven_day) THEN << >>
             ELSE << Item("seven_day",
                          WindowRaw("utilization", "resets_at", Val(data.seven_day))) >>))

(* a parse that labels the Result with the window whose data it took *)
claude_parse_response_labels_fallback(data, window, t) ==
    LET first == IF window = "7d" THEN data.seven_day ELSE data.five_hour
        window_data == IF IsNone(first) THEN data.seven_day ELSE first
        remaining == IF IsNone(window_data) THEN None
                     ELSE Some(100 - Val(window_data).utilization)
        reset_at == IF IsNone(window_data) THEN None
                    ELSE Some(DateTime(Val(window_data).resets_at, TRUE, 0))
    IN  ProviderResult("claude", IF IsNone(first) THEN "7d" ELSE window,
                       UsageMetrics(None, None, None, None, remaining, Some(100), reset_at),
                       UtcNow(t), ClaudeRaw(data), None)

(* ClaudeOAuthProvider._parse_response; resets_at is ISO text with the     *)
(* offset +00:00                                                           *)
claude_parse_response(data, window, t) ==
    LET first == IF window = "7d" THEN data.seven_day ELSE data.five_hour
        window_data == IF IsNone(first) THEN data.seven_day ELSE first
        remaining == IF IsNone(window_data) THEN None
                     ELSE Some(100 - Val(window_data).utilization)
        reset_at == IF IsNone(window_data) THEN None
                    ELSE Some(DateTime(Val(window_data).resets_at, TRUE, 0))
    IN  ProviderResult("claude", window,
                       UsageMetrics(None, None, None, None, remaining, Some(100), reset_at),
                       UtcNow(t), ClaudeRaw(data), None)

(* the body of the try of ClaudeOAuthProvider.fetch, lines 75-118 *)
claude_try(window, resp, t) ==
    LET got == client_get(resp)
    IN  IF ~IsNone(got.exc) THEN got
        ELSE IF resp.status = 401 THEN Raised("AuthenticationError")
        ELSE IF resp.status = 403
        THEN IF names_scope(resp.body)
             THEN Returned(Some(make_error_result("claude", window, "OAuth scope error",
                                                  Some(status_raw(resp)), UtcNow(t))))
             ELSE Returned(Some(make_error_result("claude", window, "API forbidden: HTTP 403",
                                                  Some(status_raw(resp)), UtcNow(t))))
        ELSE IF resp.status = 429
        THEN Returned(Some(make_error_result("claude", window,
                                             "Rate limited. Try again later.",
                                             Some(StatusRaw), UtcNow(t))))
        ELSE IF resp.status # 200
        THEN Returned(Some(make_error_result("claude", window,
                                             "API error: HTTP " \o ToString(resp.status),
                                             Some(status_raw(resp)), UtcNow(t))))
        ELSE LET data == response_json(resp, claude_document(resp.body))
             IN  IF ~IsNone(data.exc) THEN data
                 ELSE Returned(Some(claude_parse_response(Val(data.val), window, t)))

(* ClaudeOAuthProvider.fetch *)
claude_fetch(is_configured, window, resp, t) ==
    IF ~is_configured THEN NotConfigured("claude", window, t)
    ELSE fetch_except("claude", window, claude_try(window, resp, t), t)

(* OpenAIUsageProvider._get_time_range: the table of days has no entry    *)
(* for WindowPeriod.DAY_1                                                  *)
SecondsPerDay == 86400

window_days == [w \in {"5h", "7d", "30d"} |-> CASE w = "5h" -> 1 [] w = "7d" -> 7 [] w = "30d" -> 30]

get_time_range(window, t) ==
    IF window \in DOMAIN window_days
    THEN Returned(Some(<< t - window_days[window] * SecondsPerDay, t >>))
    ELSE Raised("KeyError")

(* OpenAIUsageProvider._check_response *)
check_response(resp) ==
    IF resp.status = 401 THEN Raised("AuthenticationError")
    ELSE IF resp.status = 403 THEN Raised("AuthenticationError")
    ELSE IF resp.status # 200 THEN Raised("ProviderError")
    ELSE Returned(None)

(* OpenAIUsageProvider._fetch_usage and _fetch_costs *)
openai_request(resp, data) ==
    LET got == client_get(resp)
    IN  IF ~IsNone(got.exc) THEN got
        ELSE IF ~IsNone(check_response(resp).exc) THEN check_response(resp)
        ELSE response_json(resp, data)

(* one bucket of usage results and one of cost results, cost in cents *)
OpenAIUsageData ==
    << [input_tokens |-> 450000, output_tokens |-> 125000, num_model_requests |-> 1204] >>

OpenAICostsData == << 321 >>

RECURSIVE SumOf(_, _)
SumOf(seq, field) ==
    IF seq = << >> THEN 0 ELSE Head(seq)[field] + SumOf(Tail(seq), field)

RECURSIVE SumSeq(_)
SumSeq(seq) == IF seq = << >> THEN 0 ELSE Head(seq) + SumSeq(Tail(seq))

OpenAIRaw(usage_data, costs_data) ==
    Dict(<< Item("usage", List([i \in DOMAIN usage_data |->
                    WindowRaw("input_tokens", "output_tokens", usage_data[i])])),
            Item("costs", List([i \in DOMAIN costs_data |->
                    Leaf(ToString(costs_data[i]))])) >>)

(* OpenAIUsageProvider._build_result *)
openai_build_result(window, usage_data, costs_data, t) ==
    ProviderResult("openai", window,
                   UsageMetrics(Some(Ratio(SumSeq(costs_data), 100)),
                                Some(SumOf(usage_data, "num_model_requests")),
                                Some(SumOf(usage_data, "input_tokens")),
                                Some(SumOf(usage_data, "output_tokens")),
                                None, None, None),
                   UtcNow(t), OpenAIRaw(usage_data, costs_data), None)

(* the body of the try of OpenAIUsageProvider.fetch, lines 77-87: the two  *)
(* requests are awaited one after the other                                *)
openai_try(window, usage_resp, costs_resp, t) ==
    LET range == get_time_range(window, t)
        usage == openai_request(usage_resp, OpenAIUsageData)
        costs == openai_request(costs_resp, OpenAICostsData)
    IN  IF ~IsNone(range.exc) THEN range
        ELSE IF ~IsNone(usage.exc) THEN usage
        ELSE IF ~IsNone(costs.exc) THEN costs
        ELSE Returned(Some(openai_build_result(window, Val(usage.val), Val(costs.val), t)))

(* OpenAIUsageProvider.fetch *)
openai_fetch(is_configured, window, usage_resp, costs_resp, t) ==
    IF ~is_configured THEN NotConfigured("openai", window, t)
    ELSE fetch_except("openai", window, openai_try(window, usage_resp, costs_resp, t), t)

(* CodexTokenRefresher.refresh, lines 168-209 *)
refresh_try(resp) ==
    LET got == client_get(resp)
    IN  IF ~IsNone(got.exc) THEN got
        ELSE IF resp.status = 401
        THEN IF ~IsNone(response_json(resp, None).exc) THEN response_json(resp, None)
             ELSE Raised("AuthenticationError")
        ELSE IF resp.status # 200 THEN Raised("ProviderError")
        ELSE response_json(resp, None)

(* the refresh of CodexProvider.fetch, lines 273-280: AuthenticationError  *)
(* is raised again, every other exception is dropped                       *)
codex_refresh(needs_refresh, resp) ==
    IF ~needs_refresh THEN Returned(None)
    ELSE LET out == refresh_try(resp)
         IN  IF ~IsNone(out.exc) /\ Caught(Val(out.exc), {"AuthenticationError"}) THEN out
             ELSE Returned(None)

CodexData ==
    [primary_window |-> Some([used_percent |-> 20, reset_at |-> 18000]),
     secondary_window |-> Some([used_percent |-> 10, reset_at |-> 604800]),
     balance |-> Some(50)]

(* the document of a body: the one of PartialBody has no secondary_window *)
codex_document(body) ==
    IF body = PartialBody THEN [CodexData EXCEPT !.secondary_window = None] ELSE CodexData

CodexRaw(data) ==
    Dict(<< Item("rate_limit",
                 Dict((IF IsNone(data.primary_window) THEN << >>
                       ELSE << Item("primary_window",
                                    WindowRaw("used_percent", "reset_at",
                                              Val(data.primary_window))) >>)
                      \o (IF IsNone(data.secondary_window) THEN << >>
                          ELSE << Item("secondary_window",
                                       WindowRaw("used_percent", "reset_at",
                                                 Val(data.secondary_window))) >>))),
            Item("credits", Dict(<< Item("balance", Leaf(ToString(Val(data.balance)))) >>)) >>)

(* CodexProvider._parse_response *)
codex_parse_response(data, window, t) ==
    LET window_data == IF window = "1d" THEN data.primary_window
                       ELSE IF IsNone(data.secondary_window) THEN data.primary_window
                       ELSE data.secondary_window
        remaining == IF IsNone(window_data) THEN None
                     ELSE Some(100 - Val(window_data).used_percent)
        reset_at == IF IsNone(window_data) THEN None
                    ELSE Some(NowUtc(Val(window_data).reset_at))
    IN  ProviderResult("codex", window,
                       UsageMetrics(data.balance, None, None, None, remaining, Some(100),
                                    reset_at),
                       UtcNow(t), CodexRaw(data), None)

(* the body of the try of CodexProvider.fetch, lines 283-314 *)
codex_try(window, resp, t) ==
    LET got == client_get(resp)
    IN  IF ~IsNone(got.exc) THEN got
        ELSE IF resp.status \in {401, 403} THEN Raised("AuthenticationError")
        ELSE IF resp.status # 200
        THEN Returned(Some(make_error_result("codex", window,
                                             "API error: HTTP " \o ToString(resp.status),
                                             Some(status_raw(resp)), UtcNow(t))))
        ELSE LET data == response_json(resp, codex_document(resp.body))
             IN  IF ~IsNone(data.exc) THEN data
                 ELSE Returned(Some(codex_parse_response(Val(data.val), window, t)))

(* CodexProvider.fetch *)
codex_fetch(is_configured, needs_refresh, refresh_resp, window, resp, t) ==
    IF ~is_configured THEN NotConfigured("codex", window, t)
    ELSE IF ~IsNone(codex_refresh(needs_refresh, refresh_resp).exc)
    THEN codex_refresh(needs_refresh, refresh_resp)
    ELSE fetch_except("codex", window, codex_try(window, resp, t), t)

(* The calls of fetch, on their own. *)

Fetched(adapter, window, is_configured, refresh, requests, out) ==
    [adapter |-> adapter, window |-> window, is_configured |-> is_configured,
     refresh |-> refresh, requests |-> requests, out |-> out]

ClaudeFetch(is_configured, window, resp) ==
    /\ fetched' = Fetched("claude", window, is_configured, None, << resp >>,
                          claude_fetch(is_configured, window, resp, now))
    /\ UNCHANGED << cache_vars, metric_vars, made, poll_vars, threads, sanitized >>

OpenAIFetch(is_configured, window, usage_resp, costs_resp) ==
    /\ fetched' = Fetched("openai", window, is_configured, None,
                          << usage_resp, costs_resp >>,
                          openai_fetch(is_configured, window, usage_resp, costs_resp, now))
    /\ UNCHANGED << cache_vars, metric_vars, made, poll_vars, threads, sanitized >>

(* the answers of the token endpoint; a 401 may carry a JSON body or not *)
RefreshResponses ==
    { Http(200, JsonBody), Http(401, JsonBody), Http(401, ""), Http(500, "oops"), Timeout }

CodexFetch(is_configured, window, refresh, resp) ==
    /\ fetched' = Fetched("codex", window, is_configured, refresh, << resp >>,
                          codex_fetch(is_configured, ~IsNone(refresh),
                                      IF IsNone(refresh) THEN Timeout ELSE Val(refresh),
                                      window, resp, now))
    /\ UNCHANGED << cache_vars, metric_vars, made, poll_vars, threads, sanitized >>

NextFetch ==
    \/ \E c \in BOOLEAN, w \in WindowPeriod, r \in Responses : ClaudeFetch(c, w, r)
    \/ \E c \in BOOLEAN, w \in WindowPeriod, r1 \in Responses, r2 \in Responses :
         OpenAIFetch(c, w, r1, r2)
    \/ \E c \in BOOLEAN, w \in WindowPeriod, rr \in OptionalOf(RefreshResponses),
          r \in Responses : CodexFetch(c, w, rr, r)

SpecFetch == Init /\ [][NextFetch]_vars

----------------------------------------------------------------------------
(* tui.py: the poll loop of UsageTUI.  action_refresh walks the sources in *)
(* the order of self.providers; a pass of its loop body is one step, since *)
(* the body suspends in await provider.fetch.  The sources of the model    *)
(* are those whose adapter is in providers/.                               *)

PollOrder == << "claude", "openai", "codex" >>

PollProviders == {PollOrder[i] : i \in DOMAIN PollOrder}

(* how many times action_refresh is started *)
MaxCycles == 2

(* what the usage endpoint answers a fetch of the poll loop *)
PollResponses == { Http(200, JsonBody), Http(401, ""), Http(429, ""), Timeout }

(* provider.fetch(self.window); a second request is answered well and the  *)
(* Codex token needs no refresh                                            *)
provider_fetch(name, window, resp, t) ==
    CASE name = "claude" -> claude_fetch(TRUE, window, resp, t)
      [] name = "openai" -> openai_fetch(TRUE, window, resp, Http(200, JsonBody), t)
      [] name = "codex" -> codex_fetch(TRUE, FALSE, Timeout, window, resp, t)

(* a loop body that asks the adapter whatever the cache returned *)
must_fetch_always(cached) == TRUE

(* "if cached: ... continue", lines 432-437: a Result is truthy *)
must_fetch(cached) == IsNone(cached)

(* str(e) of the exception fetch raised *)
exception_text(exc) ==
    CASE exc = "AuthenticationError" -> "Invalid or expired token"
      [] OTHER -> "Unexpected error"

(* self.cache.get(provider_name, self.window), as ResultCache.get *)
cache_get(provider, window) ==
    IF memory_hit(cache_key(provider, window))
    THEN Returned(Some(memory_cache[cache_key(provider, window)].result))
    ELSE load_from_disk(provider, window, FALSE)

(* what one pass of the loop body of action_refresh did *)
Step(provider, is_configured, get_called, got, fetch_called, fetch_out, set_called, set_arg, shown) ==
    [kind |-> "body", provider |-> provider, is_configured |-> is_configured,
     get_called |-> get_called, got |-> got, fetch_called |-> fetch_called,
     fetch_out |-> fetch_out, set_called |-> set_called, set_arg |-> set_arg,
     shown |-> shown]

(* UsageTUI.action_refresh is started (on_mount, the refresh button or key) *)
ActionRefresh ==
    /\ cycle.pos = 0
    /\ cycle.n < MaxCycles
    /\ cycle' = [pos |-> 1, n |-> cycle.n + 1, switched |-> FALSE]
    /\ UNCHANGED << cache_vars, metric_vars, made, fetched, tui_window, configured,
                    results, step, last_fetch, threads, sanitized >>

(* one pass of the loop body of action_refresh, lines 423-450 *)
RefreshBody(resp) ==
    /\ cycle.pos > 0
    /\ LET p == PollOrder[cycle.pos]
           key == cache_key(p, tui_window)
           got == cache_get(p, tui_window)
           out == provider_fetch(p, tui_window, resp, now)
           after == [cycle EXCEPT !.pos = IF cycle.pos = Len(PollOrder) THEN 0
                                          ELSE cycle.pos + 1]
       IN  IF ~configured[p]
           THEN /\ step' = Step(p, FALSE, FALSE, None, FALSE, Returned(None), FALSE,
                                None, None)
                /\ cycle' = after
                /\ UNCHANGED << cache_vars, results, last_fetch >>
           ELSE IF ~IsNone(got.exc)
           THEN /\ step' = Step(p, TRUE, TRUE, None, FALSE, Returned(None), FALSE,
                                None, None)
                /\ cycle' = [cycle EXCEPT !.pos = 0]
                /\ memory_cache' = memory_after_get(key)
                /\ last' = Log("get", p, tui_window, got, "disk")
                /\ UNCHANGED << now, disk, dir_ok, last_set, last_good, nsets, results,
                                last_fetch >>
           ELSE IF ~must_fetch(got.val)
           THEN /\ step' = Step(p, TRUE, TRUE, got.val, FALSE, Returned(None), FALSE,
                                None, got.val)
                /\ cycle' = after
                /\ memory_cache' = memory_after_get(key)
                /\ results' = Put(results, p, Val(got.val))
                /\ last' = Log("get", p, tui_window, got,
                               IF memory_hit(key) THEN "memory" ELSE "disk")
                /\ UNCHANGED << now, disk, dir_ok, last_set, last_good, nsets, last_fetch >>
           ELSE IF IsNone(out.exc)
           THEN LET result == Val(out.val)
                    wrote == persists(result) /\ save_succeeds(result, "ok")
                IN  /\ step' = Step(p, TRUE, TRUE, got.val, TRUE, out, TRUE, out.val,
                                    out.val)
                    /\ cycle' = after
                    /\ memory_cache' = Put(memory_after_get(key),
                                           cache_key(result.provider, result.window),
                                           new_entry(result, now))
                    /\ disk' = IF persists(result) THEN save_to_disk(result, "ok") ELSE disk
                    /\ results' = Put(results, p, result)
                    /\ last' = Log("set", result.provider, result.window,
                                   Returned(Some(result)), "none")
                    /\ last_set' = Put(last_set, cache_key(result.provider, result.window),
                                       [result |-> result, at |-> now, wrote |-> wrote])
                    /\ last_good' = IF wrote
                                    THEN Put(last_good,
                                             cache_key(result.provider, result.window),
                                             sanitized_copy(result))
                                    ELSE last_good
                    /\ nsets' = nsets + 1
                    /\ last_fetch' = Put(last_fetch, p,
                                         [at |-> now, window |-> tui_window, out |-> out,
                                          shown |-> result])
                    /\ UNCHANGED << now, dir_ok >>
           ELSE LET result == make_error_result(p, tui_window,
                                                exception_text(Val(out.exc)), None,
                                                UtcNow(now))
                IN  /\ step' = Step(p, TRUE, TRUE, got.val, TRUE, out, FALSE, None,
                                    Some(result))
                    /\ cycle' = after
                    /\ memory_cache' = memory_after_get(key)
                    /\ results' = Put(results, p, result)
                    /\ last' = Log("get", p, tui_window, got, "disk")
                    /\ last_fetch' = Put(last_fetch, p,
                                         [at |-> now, window |-> tui_window, out |-> out,
                                          shown |-> result])
                    /\ UNCHANGED << now, disk, dir_ok, last_set, last_good, nsets >>
    /\ UNCHANGED << metric_vars, made, fetched, tui_window, configured, threads,
                    sanitized >>

(* UsageTUI.__init__: the adapters read their credentials; DAY_7 is the    *)
(* window on display                                                       *)
InitPoll ==
    /\ InitCache
    /\ InitMetricsIdle
    /\ InitAdaptersIdle
    /\ tui_window = "7d"
    /\ configured \in [PollProviders -> BOOLEAN]
    /\ results = EmptyDict
    /\ cycle = IdleCycle
    /\ step = NoStep
    /\ last_fetch = EmptyDict
    /\ InitThreadsIdle
    /\ InitSanitizedIdle

NextPoll ==
    \/ ActionRefresh
    \/ \E resp \in PollResponses : RefreshBody(resp)
    \/ Tick

SpecPoll == InitPoll /\ [][NextPoll]_vars

----------------------------------------------------------------------------
(* tui.py: the window actions.  action_window_7d sets the window, calls    *)
(* cache.invalidate() and awaits action_refresh, whose loop then runs as   *)
(* above.  (action_window_5h assigns WindowPeriod.HOUR_5, a member that    *)
(* providers/base.py does not define.)                                     *)

(* what a window action did before it started action_refresh *)
WindowStep(window) == [NoStep EXCEPT !.kind = "window", !.provider = window]

(* UsageTUI.action_window_7d, lines 462-467, up to the first pass of the   *)
(* loop of action_refresh                                                  *)
ActionWindow7d ==
    /\ cycle.pos = 0
    /\ cycle.n < MaxCycles
    /\ tui_window' = "7d"
    /\ memory_cache' = memory_after_invalidate(None, None)
    /\ last' = Log("invalidate", ArgText(None), ArgText(None), Returned(None), "none")
    /\ step' = WindowStep("7d")
    /\ cycle' = [pos |-> 1, n |-> cycle.n + 1, switched |-> TRUE]
    /\ UNCHANGED << now, disk, dir_ok, last_set, last_good, nsets, metric_vars, made,
                    fetched, configured, results, last_fetch, threads, sanitized >>

NextSwitch ==
    \/ ActionRefresh
    \/ \E resp \in PollResponses : RefreshBody(resp)
    \/ ActionWindow7d
    \/ Tick

SpecSwitch == InitPoll /\ [][NextSwitch]_vars

----------------------------------------------------------------------------
(* Two callers inside ResultCache.get for the same key, with nothing to    *)
(* keep them apart: each statement of get is a step, and the steps of the  *)
(* two interleave in every order.  The clock stands still and no other     *)
(* operation runs while the two are inside get.                            *)

Callers == {1, 2}

(* both callers enter get(provider, window); what one get alone would      *)
(* return and leave behind is kept for comparison                          *)
EnterGets(provider, window) ==
    /\ threads = NoRace
    /\ threads' = [provider |-> provider, window |-> window,
                   pc |-> << "lookup", "lookup" >>, entry |-> << None, None >>,
                   out |-> << Returned(None), Returned(None) >>,
                   one_get |-> cache_get(provider, window),
                   memory_after |-> memory_after_get(cache_key(provider, window)),
                   disk_before |-> disk]
    /\ UNCHANGED << cache_vars, metric_vars, made, fetched, poll_vars, sanitized >>

(* line 85: entry := self._memory_cache.get(key) *)
GetLookup(c) ==
    LET key == cache_key(threads.provider, threads.window)
    IN  /\ threads.pc[c] = "lookup"
        /\ threads' = IF key \in DOMAIN memory_cache
                      THEN [threads EXCEPT !.pc[c] = "expiry",
                                           !.entry[c] = Some(memory_cache[key])]
                      ELSE [threads EXCEPT !.pc[c] = "load"]
        /\ UNCHANGED << cache_vars, metric_vars, made, fetched, poll_vars, sanitized >>

(* lines 86-87: if not entry.is_expired(): return entry.result *)
GetExpiry(c) ==
    /\ threads.pc[c] = "expiry"
    /\ threads' = IF ~is_expired(Val(threads.entry[c]), now)
                  THEN [threads EXCEPT !.pc[c] = "done",
                                       !.out[c] = Returned(Some(Val(threads.entry[c]).result))]
                  ELSE [threads EXCEPT !.pc[c] = "del"]
    /\ UNCHANGED << cache_vars, metric_vars, made, fetched, poll_vars, sanitized >>

(* line 88: del self._memory_cache[key]; KeyError when the key is gone *)
GetDel(c) ==
    LET key == cache_key(threads.provider, threads.window)
    IN  /\ threads.pc[c] = "del"
        /\ IF key \in DOMAIN memory_cache
           THEN /\ memory_cache' = Del(memory_cache, key)
                /\ threads' = [threads EXCEPT !.pc[c] = "load"]
           ELSE /\ memory_cache' = memory_cache
                /\ threads' = [threads EXCEPT !.pc[c] = "done",
                                              !.out[c] = Raised("KeyError")]
        /\ UNCHANGED << now, disk, dir_ok, last, last_set, last_good, nsets, metric_vars,
                        made, fetched, poll_vars, sanitized >>

(* line 91: return self._load_from_disk(provider, window) *)
GetLoad(c) ==
    /\ threads.pc[c] = "load"
    /\ threads' = [threads EXCEPT !.pc[c] = "done",
                                  !.out[c] = load_from_disk(threads.provider,
                                                            threads.window, FALSE)]
    /\ UNCHANGED << cache_vars, metric_vars, made, fetched, poll_vars, sanitized >>

(* both callers have left get *)
BothDone == \A c \in Callers : threads.pc[c] = "done"

LeaveGets ==
    /\ BothDone
    /\ threads' = NoRace
    /\ UNCHANGED << cache_vars, metric_vars, made, fetched, poll_vars, sanitized >>

NextRace ==
    \/ \E pw \in ModelKeys : EnterGets(pw[1], pw[2])
    \/ \E c \in Callers : GetLookup(c)
    \/ \E c \in Callers : GetExpiry(c)
    \/ \E c \in Callers : GetDel(c)
    \/ \E c \in Callers : GetLoad(c)
    \/ LeaveGets
    \/ \E pw \in ModelKeys :
         \E c \in KeyInputs(pw[1], pw[2], now) : threads = NoRace /\ Set(c[1], c[2])
    \/ threads = NoRace /\ Tick

SpecRace == Init /\ [][NextRace]_vars

----------------------------------------------------------------------------
(* _sanitize_raw on its own, over payloads of mappings, lists and leaves   *)
(* nested up to four deep.                                                 *)

(* keys: the five words, words in another case, words that contain one     *)
(* of the five, and a harmless key                                         *)
RawKeys ==
    { "token", "key", "secret", "password", "authorization", "Token", "Authorization",
      "access_token", "api_key", "API_KEY", "amount" }

InnerKeys == { "token", "Token", "access_token", "amount" }

RawLeaves == { Leaf("5"), Leaf(REDACTED) }

InnerDicts ==
    { Dict(<< Item(k, l) >>) : k \in InnerKeys, l \in RawLeaves }
    \cup { Dict(<< Item("key", Leaf("5")), Item("amount", Leaf("5")) >>) }

RawValues ==
    RawLeaves \cup InnerDicts \cup { List(<< >>) }
    \cup { List(<< d, l >>) : d \in InnerDicts, l \in RawLeaves }

(* a mapping in a list in a mapping in a mapping *)
DeepRaw ==
    Dict(<< Item("outer",
                 Dict(<< Item("items",
                              List(<< Dict(<< Item("password", Dict(<< Item("amount", Leaf("5")) >>)),
                                              Item("api_key", Leaf("k-1")) >>) >>)) >>)) >>)

RawPayloads ==
    { Dict(<< >>), SecretRaw, DeepRaw }
    \cup { Dict(<< Item(k, v) >>) : k \in RawKeys, v \in RawValues }
    \cup { Dict(<< Item(k, l), Item("data", v) >>) :
              k \in {"secret", "amount"}, l \in RawLeaves, v \in RawValues }

(* self._sanitize_raw(raw), and again on what it returned *)
Sanitize ==
    /\ ~sanitized.done
    /\ sanitized' = [sanitized EXCEPT !.done = TRUE,
                                      !.once = sanitize_raw(sanitized.input),
                                      !.twice = sanitize_raw(sanitize_raw(sanitized.input))]
    /\ UNCHANGED << cache_vars, metric_vars, made, fetched, poll_vars, threads >>

(* another payload *)
NewPayload ==
    /\ sanitized.done
    /\ \E raw \in RawPayloads : sanitized' = [NotSanitized EXCEPT !.input = raw]
    /\ UNCHANGED << cache_vars, metric_vars, made, fetched, poll_vars, threads >>

InitRaw ==
    /\ InitCache
    /\ InitMetricsIdle
    /\ InitAdaptersIdle
    /\ InitPollIdle
    /\ InitThreadsIdle
    /\ \E raw \in RawPayloads : sanitized = [NotSanitized EXCEPT !.input = raw]

NextRaw == Sanitize \/ NewPayload

SpecRaw == InitRaw /\ [][NextRaw]_vars

----------------------------------------------------------------------------
(* Vocabulary of the properties. *)

(* the call recorded in l is op on (provider, window) *)
IsCall(l, op, pw) == l.op = op /\ l.provider = pw[1] /\ l.window = pw[2]

KeyOf(pw) == cache_key(pw[1], pw[2])

PathOf(pw) == disk_path(pw[1], pw[2])

(* a and b are equal field for field, their raw up to the redacted keys *)
EqualUpToRedaction(a, b) ==
    /\ [a EXCEPT !.raw = Leaf("")] = [b EXCEPT !.raw = Leaf("")]
    /\ sanitize_raw(a.raw) = sanitize_raw(b.raw)

(* the age of a Result by the clock: the instant of the call minus the     *)
(* instant updated_at denotes                                              *)
TrueAge(result, t) == t - Instant(result.updated_at)

(* the age of a Result as the disk tier reads it: the wall-clock fields of *)
(* updated_at taken as UTC                                                 *)
WallAge(result, t) == t - result.updated_at.wall

(* updated_at is in UTC, as the data model says *)
InUtc(result) == result.updated_at.off = 0

----------------------------------------------------------------------------
(* C1 (as stated): for a non-error Result r whose set wrote the file, a    *)
(* get of r's key issued within TTL-for-source seconds of the set returns  *)
(* r, field for field up to redacted raw keys, whichever tier serves it.   *)
C1_GetWithinTtlReturnsSet ==
    \A pw \in ModelKeys :
        (/\ IsCall(last, "get", pw)
         /\ KeyOf(pw) \in DOMAIN last_set
         /\ ~is_error(last_set[KeyOf(pw)].result)
         /\ InUtc(last_set[KeyOf(pw)].result)
         /\ last_set[KeyOf(pw)].wrote
         /\ now <= last_set[KeyOf(pw)].at + ttl_for(pw[1]))
        => /\ ~IsNone(last.val)
           /\ EqualUpToRedaction(Val(last.val), last_set[KeyOf(pw)].result)

(* C1 (amended): a get of r's key within TTL-for-source seconds of set(r), *)
(* r not an error, returns r itself when the memory tier holds the entry;  *)
(* when the memory tier has no entry for the key and the set wrote the     *)
(* file, it returns r with raw sanitized if r.updated_at, its wall-clock   *)
(* fields read as UTC, is at most TTL-for-source seconds before the get,   *)
(* and absent otherwise.                                                   *)
C1_RoundTrip ==
    [][\A pw \in ModelKeys :
        (/\ IsCall(last', "get", pw)
         /\ KeyOf(pw) \in DOMAIN last_set
         /\ ~is_error(last_set[KeyOf(pw)].result)
         /\ now <= last_set[KeyOf(pw)].at + ttl_for(pw[1]))
        => LET s == last_set[KeyOf(pw)]
           IN  IF KeyOf(pw) \in DOMAIN memory_cache
               THEN last'.val = Some(s.result) /\ last'.tier = "memory"
               ELSE s.wrote =>
                      last'.val = IF WallAge(s.result, now) <= ttl_for(pw[1])
                                  THEN Some([s.result EXCEPT !.raw = sanitize_raw(@)])
                                  ELSE None]_vars

(* a get served by the disk tier returns the Result of the last set with   *)
(* its secrets redacted                                                    *)
C1_Witness ==
    \E pw \in ModelKeys :
        /\ IsCall(last, "get", pw)
        /\ last.tier = "disk"
        /\ KeyOf(pw) \in DOMAIN last_set
        /\ last_set[KeyOf(pw)].result.raw = SecretRaw
        /\ ~IsNone(last.val)
        /\ Val(last.val) # last_set[KeyOf(pw)].result
        /\ EqualUpToRedaction(Val(last.val), last_set[KeyOf(pw)].result)

----------------------------------------------------------------------------
(* C2 (as stated): for an error Result e, a get of e's key while the       *)
(* memory tier holds e and its TTL has not run out returns e from the      *)
(* memory tier, and a get that follows a restart returns absent.           *)
C2_ErrorAbsentAfterRestart ==
    [][\A pw \in ModelKeys :
        (/\ IsCall(last', "get", pw)
         /\ KeyOf(pw) \in DOMAIN last_set
         /\ is_error(last_set[KeyOf(pw)].result))
        => LET s == last_set[KeyOf(pw)]
           IN  /\ (KeyOf(pw) \in DOMAIN memory_cache /\ now <= s.at + ttl_for(pw[1]))
                    => (last'.val = Some(s.result) /\ last'.tier = "memory")
               /\ last.op = "restart" => IsNone(last'.val)]_vars

(* C2 (amended): for an error Result e, a get of e's key while the memory  *)
(* tier holds e and its TTL has not run out returns e from the memory      *)
(* tier; a get that follows a restart never returns e: it is served by the *)
(* disk tier, which returns absent when no non-error Result was written    *)
(* for the key, and otherwise absent or the non-error Result written last, *)
(* the latter only while that Result's updated_at is within the TTL.       *)
C2_ErrorMemoryOnly ==
    [][\A pw \in ModelKeys :
        (/\ IsCall(last', "get", pw)
         /\ KeyOf(pw) \in DOMAIN last_set
         /\ is_error(last_set[KeyOf(pw)].result))
        => LET s == last_set[KeyOf(pw)]
           IN  /\ (KeyOf(pw) \in DOMAIN memory_cache /\ now <= s.at + ttl_for(pw[1]))
                    => (last'.val = Some(s.result) /\ last'.tier = "memory")
               /\ last.op = "restart" =>
                    /\ last'.tier = "disk"
                    /\ last'.val # Some(s.result)
                    /\ KeyOf(pw) \notin DOMAIN last_good => IsNone(last'.val)
                    /\ ~IsNone(last'.val) =>
                         /\ last'.val = Some(last_good[KeyOf(pw)])
                         /\ WallAge(last_good[KeyOf(pw)], now) <= ttl_for(pw[1])]_vars

(* get returns an error Result from the memory tier while the file of the  *)
(* key holds an earlier non-error Result                                   *)
C2_Witness ==
    \E pw \in ModelKeys :
        /\ IsCall(last, "get", pw)
        /\ last.tier = "memory"
        /\ ~IsNone(last.val)
        /\ is_error(Val(last.val))
        /\ PathOf(pw) \in DOMAIN disk
        /\ disk[PathOf(pw)].kind = "json"

----------------------------------------------------------------------------
(* the files that hold a Result *)
ResultFiles == {path \in DOMAIN disk : disk[path].kind = "json"}

(* C3: after every step no file holds a Result with error set, and a set   *)
(* of an error Result leaves the files exactly as they were.               *)
C3_ErrorsNeverOnDisk ==
    [][/\ \A path \in ResultFiles' : IsNone(disk'[path].doc.error)
       /\ (last'.op = "set" /\ is_error(Val(last'.val))) => disk' = disk]_vars

(* an error Result has been set for a key whose file holds a Result *)
C3_Witness ==
    \E pw \in ModelKeys :
        /\ IsCall(last, "set", pw)
        /\ is_error(Val(last.val))
        /\ KeyOf(pw) \in DOMAIN memory_cache
        /\ is_error(memory_cache[KeyOf(pw)].result)
        /\ PathOf(pw) \in ResultFiles

----------------------------------------------------------------------------
(* the keys whose value must not reach the disk *)
DisallowList == {"token", "key", "secret", "password", "authorization"}

(* every disallowed key of the payload, at every depth, has the marker as  *)
(* its value                                                               *)
RECURSIVE NoSecretLeft(_)
NoSecretLeft(node) ==
    IF node.t = "dict"
    THEN \A i \in DOMAIN node.kids :
            IF Lower(node.kids[i].k) \in DisallowList
            THEN node.kids[i].val = Leaf("[REDACTED]")
            ELSE NoSecretLeft(node.kids[i].val)
    ELSE IF node.t = "list"
    THEN \A i \in DOMAIN node.kids : NoSecretLeft(node.kids[i])
    ELSE TRUE

(* C4: the raw of every Result in the disk tier has the redaction marker   *)
(* under every disallowed key, at every depth, through mappings and lists. *)
C4_DiskRawRedacted ==
    \A path \in ResultFiles : NoSecretLeft(disk[path].doc.raw)

(* a file holds the payload with authorization redacted and amount kept,   *)
(* and the memory tier holds the payload as it was set                     *)
C4_Witness ==
    \E pw \in ModelKeys :
        /\ PathOf(pw) \in ResultFiles
        /\ disk[PathOf(pw)].doc.raw.kids[1] = Item("authorization", Leaf("[REDACTED]"))
        /\ disk[PathOf(pw)].doc.raw.kids[2] = Item("amount", Leaf("5"))
        /\ KeyOf(pw) \in DOMAIN memory_cache
        /\ memory_cache[KeyOf(pw)].result.raw = SecretRaw

----------------------------------------------------------------------------
(* C5 (as stated): get_last_good returns the sanitized Result of the most  *)
(* recent non-error set for the key whose disk write succeeded, whatever   *)
(* its age, and absent only if there was no such set.                      *)
C5_LastGoodIsLastWritten ==
    \A pw \in ModelKeys :
        IsCall(last, "get_last_good", pw)
        => last.val = IF KeyOf(pw) \in DOMAIN last_good
                      THEN Some(last_good[KeyOf(pw)])
                      ELSE None

----------------------------------------------------------------------------
(* C6: invalidate, whatever its arguments, leaves every file as it was;    *)
(* without arguments it leaves the memory tier empty; and a get_last_good  *)
(* that follows an invalidate returns the Result the file of the key       *)
(* holds.                                                                  *)
C6_InvalidateMemoryOnly ==
    [][/\ last'.op = "invalidate" =>
            /\ disk' = disk
            /\ (last'.provider = "*" /\ last'.window = "*") => DOMAIN memory_cache' = {}
       /\ \A pw \in ModelKeys :
            (/\ last.op = "invalidate"
             /\ IsCall(last', "get_last_good", pw)
             /\ PathOf(pw) \in ResultFiles)
            => /\ ~IsNone(last'.val)
               /\ model_dump_json(Val(last'.val)) = disk[PathOf(pw)].doc
               /\ KeyOf(pw) \in DOMAIN last_good
               /\ Val(last'.val) = last_good[KeyOf(pw)]]_vars

(* invalidate() has emptied a memory tier after sets, the files are there  *)
C6_Witness ==
    /\ last.op = "invalidate"
    /\ last.provider = "*"
    /\ last.window = "*"
    /\ DOMAIN memory_cache = {}
    /\ nsets >= 2
    /\ now = 0
    /\ DOMAIN last_set = {KeyOf(pw) : pw \in ModelKeys}
    /\ ResultFiles = {PathOf(pw) : pw \in ModelKeys}

----------------------------------------------------------------------------
----------------------------------------------------------------------------
(* the file of (provider, window) is there and holds no Result that        *)
(* validates                                                               *)
BadFile(pw) ==
    /\ PathOf(pw) \in DOMAIN disk
    /\ \/ disk[PathOf(pw)].kind # "json"
       \/ disk[PathOf(pw)].doc.window \notin WindowPeriod

(* C8 (as stated): no call raises because of a storage problem; a corrupt, *)
(* schema-mismatched or unreadable file makes get and get_last_good return *)
(* absent; after set the memory tier holds the new entry, whatever became  *)
(* of the write.                                                           *)
C8_StorageProblemsNeverRaise ==
    /\ IsNone(last.exc)
    /\ \A pw \in ModelKeys :
        /\ ((IsCall(last, "get", pw) /\ last.tier = "disk") \/ IsCall(last, "get_last_good", pw))
             => (BadFile(pw) => IsNone(last.val))
        /\ IsCall(last, "set", pw)
             => /\ KeyOf(pw) \in DOMAIN memory_cache
                /\ memory_cache[KeyOf(pw)].result = Val(last.val)

----------------------------------------------------------------------------
(* C9 (as stated): with no memory entry for the key and a file that        *)
(* parses, get returns the persisted Result iff now - updated_at is at     *)
(* most TTL-for-source, and absent otherwise; get_last_good returns the    *)
(* persisted Result in both cases.                                         *)
C9_DiskFreshByUpdatedAt ==
    [][\A pw \in ModelKeys :
        (/\ KeyOf(pw) \notin DOMAIN memory_cache
         /\ PathOf(pw) \in ResultFiles)
        => LET doc == disk[PathOf(pw)].doc
           IN  /\ IsCall(last', "get", pw) =>
                    IF TrueAge(doc, now) <= ttl_for(pw[1])
                    THEN ~IsNone(last'.val) /\ model_dump_json(Val(last'.val)) = doc
                    ELSE IsNone(last'.val)
               /\ IsCall(last', "get_last_good", pw) =>
                    (~IsNone(last'.val) /\ model_dump_json(Val(last'.val)) = doc)]_vars

----------------------------------------------------------------------------
(* C10 (as stated): usage_percent is undefined when limit is 0, negative   *)
(* or absent, or remaining is absent; in every other case it is            *)
(* (limit - remaining) / limit * 100, unclamped.                           *)
C10_UsagePercent ==
    derived.computed =>
        IF \/ IsNone(metrics_in.limit)
           \/ Val(metrics_in.limit) <= 0
           \/ IsNone(metrics_in.remaining)
        THEN IsNone(derived.usage_percent)
        ELSE /\ ~IsNone(derived.usage_percent)
             /\ Val(derived.usage_percent).num * Val(metrics_in.limit)
                  = (Val(metrics_in.limit) - Val(metrics_in.remaining)) * 100
                      * Val(derived.usage_percent).den

----------------------------------------------------------------------------
(* an absent operand counted as 0 *)
AbsentAsZero(o) == IF IsNone(o) THEN 0 ELSE Val(o)

----------------------------------------------------------------------------
(* C12: the construction of an error Result from (source, window, message, *)
(* optional raw) never raises and gives a Result of that source and window *)
(* whose metrics fields are all absent, whose error is the message and     *)
(* whose raw is the raw given, or the empty mapping when none is given;    *)
(* is_error of a Result holds exactly when its error is present.           *)
C12_ErrorResult ==
    /\ made.kind = "error" =>
            /\ IsNone(made.out.exc)
            /\ ~IsNone(made.out.val)
            /\ LET r == Val(made.out.val)
               IN  /\ r.provider = made.provider
                   /\ r.window = made.window
                   /\ \A f \in DOMAIN r.metrics : IsNone(r.metrics[f])
                   /\ r.error = made.error
                   /\ r.raw = IF IsNone(made.raw) THEN Dict(<< >>) ELSE Val(made.raw)
    /\ made.kind # "none" =>
            /\ ~IsNone(made.out.val)
            /\ made.is_error <=> ~IsNone(Val(made.out.val).error)

(* an error Result has been constructed with a raw payload and with the    *)
(* empty text as its message: the payload is its raw and is_error holds    *)
C12_Witness ==
    /\ made.kind = "error"
    /\ made.error = Some("")
    /\ made.raw = Some(StatusRaw)
    /\ Val(made.out.val).raw = StatusRaw
    /\ Val(made.out.val).metrics = EmptyMetrics
    /\ made.is_error

----------------------------------------------------------------------------
(* every (source, window) pair of the enumerations *)
AllPairs == ProviderName \X WindowPeriod

(* the memory keys and the files whose Result is of the pair pw *)
MemoryEntriesOf(pw) ==
    {k \in DOMAIN memory_cache :
        memory_cache[k].result.provider = pw[1] /\ memory_cache[k].result.window = pw[2]}

FilesOf(pw) ==
    {path \in ResultFiles : disk[path].doc.provider = pw[1] /\ disk[path].doc.window = pw[2]}

(* C13: each tier holds at most one entry per (source, window) pair; the   *)
(* entry under the memory key "source:window" or in the file               *)
(* "source_window.json" is a Result of that source and window; and         *)
(* distinct pairs have distinct memory keys and distinct files.            *)
C13_OneEntryPerPair ==
    /\ \A pw \in AllPairs :
            /\ MemoryEntriesOf(pw) \subseteq {pw[1] \o ":" \o pw[2]}
            /\ FilesOf(pw) \subseteq {pw[1] \o "_" \o pw[2] \o ".json"}
            /\ Cardinality(MemoryEntriesOf(pw)) <= 1
            /\ Cardinality(FilesOf(pw)) <= 1
    /\ \A k \in DOMAIN memory_cache : \E pw \in AllPairs : k \in MemoryEntriesOf(pw)
    /\ \A path \in ResultFiles : \E pw \in AllPairs : path \in FilesOf(pw)
    /\ \A pw1 \in AllPairs, pw2 \in AllPairs :
            pw1 # pw2 => /\ cache_key(pw1[1], pw1[2]) # cache_key(pw2[1], pw2[2])
                         /\ disk_path(pw1[1], pw1[2]) # disk_path(pw2[1], pw2[2])

(* both tiers hold a Result for two pairs of the same source, after two    *)
(* sets                                                                    *)
C13_Witness ==
    /\ nsets >= 2
    /\ {"claude:1d", "claude:7d"} \subseteq DOMAIN memory_cache
    /\ {"claude_1d.json", "claude_7d.json"} \subseteq ResultFiles
    /\ memory_cache["claude:1d"].result.window = "1d"
    /\ disk["claude_7d.json"].doc.window = "7d"

----------------------------------------------------------------------------
(* the failure modes fetch has to turn into an error Result: a status      *)
(* other than 200 (401 and 403, 429, any other), a network error, a        *)
(* timeout                                                                 *)
OrdinaryFailure(resp) == resp.kind \in {"timeout", "network"} \/ resp.status # 200

(* the answer fetch expects *)
GoodResponse(resp) == resp = Http(200, JsonBody)

(* every answer the call of fetch recorded in f met is the expected one or *)
(* an ordinary failure, and the window is one the adapter has a range for  *)
OrdinaryCall(f) ==
    /\ f.adapter # "none"
    /\ f.is_configured
    /\ f.adapter = "openai" => f.window \in DOMAIN window_days
    /\ \A i \in DOMAIN f.requests : GoodResponse(f.requests[i]) \/ OrdinaryFailure(f.requests[i])
    /\ \A i \in DOMAIN f.refresh : GoodResponse(f.refresh[i]) \/ OrdinaryFailure(f.refresh[i])

(* C14 (as stated): fetch of every adapter returns, and does not raise,    *)
(* when its requests meet ordinary failures (401/403, 429, another non-200 *)
(* status, a network error, a timeout), and what it returns when a usage   *)
(* request failed is an error Result.                                      *)
C14_FetchNeverRaises ==
    OrdinaryCall(fetched) =>
        /\ IsNone(fetched.out.exc)
        /\ ~IsNone(fetched.out.val)
        /\ (\E i \in DOMAIN fetched.requests : OrdinaryFailure(fetched.requests[i]))
              => is_error(Val(fetched.out.val))

----------------------------------------------------------------------------
(* the step is a pass of the loop body of action_refresh for source p *)
BodyPassFor(p) == cycle.pos > 0 /\ PollOrder[cycle.pos] = p /\ cycle' # cycle

(* the fetch recorded in f failed: it raised, or returned an error Result *)
FetchFailed(f) == ~IsNone(f.out.exc) \/ is_error(Val(f.out.val))

(* C15 (as stated): once a fetch of the poll loop has failed for a source, *)
(* the memory tier holds the failure as an error Result, and a later pass  *)
(* of the loop for that source and window, made before the TTL of the      *)
(* source has run out, shows that error Result and does not call fetch.    *)
C15_FailureShownWithoutRefetch ==
    [][\A p \in PollProviders :
        (/\ BodyPassFor(p)
         /\ configured[p]
         /\ p \in DOMAIN last_fetch
         /\ FetchFailed(last_fetch[p])
         /\ last_fetch[p].window = tui_window
         /\ now <= last_fetch[p].at + ttl_for(p))
        => /\ cache_key(p, tui_window) \in DOMAIN memory_cache
           /\ memory_cache[cache_key(p, tui_window)].result = last_fetch[p].shown
           /\ ~step'.fetch_called
           /\ step'.shown = Some(last_fetch[p].shown)
           /\ is_error(Val(step'.shown))]_vars

----------------------------------------------------------------------------
(* C16: in every pass of the loop body, fetch is called only for a         *)
(* configured source for which get was called and returned absent; a       *)
(* source that is not configured gets neither a get nor a fetch; and a     *)
(* Result that fetch returned has been handed to set, and is the memory    *)
(* entry of its key, before the loop goes on.                              *)
C16_FetchOnlyOnMiss ==
    step.kind = "body" =>
        /\ step.is_configured = configured[step.provider]
        /\ step.fetch_called => (step.is_configured /\ step.get_called /\ IsNone(step.got))
        /\ ~step.is_configured => (~step.fetch_called /\ ~step.get_called)
        /\ (step.fetch_called /\ IsNone(step.fetch_out.exc)) =>
                /\ step.set_called
                /\ step.set_arg = step.fetch_out.val
                /\ cache_key(step.provider, tui_window) \in DOMAIN memory_cache
                /\ Some(memory_cache[cache_key(step.provider, tui_window)].result)
                     = step.fetch_out.val
        /\ step.set_called => step.fetch_called

(* in a second cycle a pass has fetched for a configured source whose      *)
(* entry had expired and has stored the Result, while a source that is not *)
(* configured was never fetched                                            *)
C16_Witness ==
    /\ cycle.n = 2
    /\ step.kind = "body"
    /\ step.provider = "claude"
    /\ step.fetch_called
    /\ step.set_called
    /\ now > 0
    /\ memory_cache["claude:7d"].cached_at = NowUtc(now)
    /\ ~configured["openai"]
    /\ "openai" \notin DOMAIN last_fetch
    /\ "openai" \notin DOMAIN results

----------------------------------------------------------------------------
(* C17 (as stated): when two gets of the same key interleave, whether or   *)
(* not the memory entry of the key has expired, neither raises, both       *)
(* return what one get alone returns, and the tiers end as one get alone   *)
(* leaves them.                                                            *)
C17_InterleavedGetsAgree ==
    BothDone =>
        /\ \A c \in Callers : IsNone(threads.out[c].exc)
        /\ \A c \in Callers : threads.out[c] = threads.one_get
        /\ memory_cache = threads.memory_after
        /\ disk = threads.disk_before

----------------------------------------------------------------------------
(* C18: sanitizing a payload that has been sanitized gives the same        *)
(* payload.                                                                *)
C18_SanitizeIdempotent ==
    sanitized.done => sanitized.twice = sanitized.once

(* a payload with secrets under a list has been sanitized once and twice:  *)
(* the first pass changed it, the second did not                           *)
C18_Witness ==
    /\ sanitized.done
    /\ sanitized.input = SecretRaw
    /\ sanitized.once # sanitized.input
    /\ sanitized.once.kids[3].val.kids[1].kids[1] = Item("Token", Leaf("[REDACTED]"))
    /\ sanitized.twice = sanitized.once

----------------------------------------------------------------------------
(* out is input with the value under every key whose lowercased text is    *)
(* one of the five words replaced by the marker and with nothing else      *)
(* changed: the same keys in the same order, lists of the same length,     *)
(* every other value the same                                              *)
RECURSIVE RedactedExactly(_, _)
RedactedExactly(input, out) ==
    IF input.t = "dict"
    THEN /\ out.t = "dict"
         /\ Len(out.kids) = Len(input.kids)
         /\ \A i \in DOMAIN input.kids :
                /\ out.kids[i].k = input.kids[i].k
                /\ IF Lower(input.kids[i].k) \in DisallowList
                   THEN out.kids[i].val = Leaf("[REDACTED]")
                   ELSE RedactedExactly(input.kids[i].val, out.kids[i].val)
    ELSE IF input.t = "list"
    THEN /\ out.t = "list"
         /\ Len(out.kids) = Len(input.kids)
         /\ \A i \in DOMAIN input.kids : RedactedExactly(input.kids[i], out.kids[i])
    ELSE out = input

----------------------------------------------------------------------------
(* the memory entry was captured more than its TTL before the clock time t *)
PastTtl(entry, t) == t - Instant(entry.cached_at) > entry.ttl_seconds

(* C20: a get of a key whose memory entry has expired removes that entry   *)
(* and leaves every other memory entry as it was; a get of a key whose     *)
(* memory entry is fresh, or that has no memory entry, leaves the memory   *)
(* tier as it was; and every get leaves every file as it was.              *)
C20_GetFrame ==
    [][\A pw \in ModelKeys :
        IsCall(last', "get", pw) =>
            /\ disk' = disk
            /\ IF KeyOf(pw) \in DOMAIN memory_cache /\ PastTtl(memory_cache[KeyOf(pw)], now)
               THEN /\ DOMAIN memory_cache' = DOMAIN memory_cache \ {KeyOf(pw)}
                    /\ \A k \in DOMAIN memory_cache' : memory_cache'[k] = memory_cache[k]
                    /\ last'.tier = "disk"
               ELSE memory_cache' = memory_cache]_vars

(* a get of (claude, 7d) 120 seconds after its set was served by the disk  *)
(* tier; the memory tier has no entry for it and still has the entry of    *)
(* (codex, 1d), and both files are there                                   *)
C20_Witness ==
    /\ IsCall(last, "get", <<"claude", "7d">>)
    /\ last.tier = "disk"
    /\ now = 120
    /\ "claude:7d" \in DOMAIN last_set
    /\ last_set["claude:7d"].at = 0
    /\ DOMAIN memory_cache = {"codex:1d"}
    /\ DOMAIN disk = {"claude_7d.json", "codex_1d.json"}

----------------------------------------------------------------------------
(* the pair is one that invalidate(provider, window) is asked to remove *)
Matching(pw, provider, window) ==
    /\ (IsNone(provider) \/ pw[1] = Val(provider))
    /\ (IsNone(window) \/ pw[2] = Val(window))

(* C21: invalidate(source, window) with at least one argument leaves no    *)
(* memory entry whose source matches (when given) and whose window matches *)
(* (when given), and leaves every other memory entry as it was; it adds no *)
(* entry.                                                                  *)
C21_InvalidateExactlyMatching ==
    [][\A p \in OptionalOf(ModelSources), w \in OptionalOf(ModelWindows) :
        (/\ last'.op = "invalidate"
         /\ last'.provider = ArgText(p)
         /\ last'.window = ArgText(w)
         /\ ~(IsNone(p) /\ IsNone(w)))
        => /\ DOMAIN memory_cache' \subseteq DOMAIN memory_cache
           /\ \A pw \in KeyPairs :
                IF Matching(pw, p, w)
                THEN KeyOf(pw) \notin DOMAIN memory_cache'
                ELSE KeyOf(pw) \in DOMAIN memory_cache
                        => /\ KeyOf(pw) \in DOMAIN memory_cache'
                           /\ memory_cache'[KeyOf(pw)] = memory_cache[KeyOf(pw)]]_vars

(* after sets for (claude, 7d) and (claude, 1d), invalidate(claude, 7d)    *)
(* has left the entry of (claude, 1d) alone in the memory tier             *)
C21_Witness ==
    /\ last.op = "invalidate"
    /\ last.provider = "claude"
    /\ last.window = "7d"
    /\ nsets = 2
    /\ DOMAIN last_set = {"claude:7d", "claude:1d"}
    /\ DOMAIN memory_cache = {"claude:1d"}
    /\ memory_cache["claude:1d"].result = last_set["claude:1d"].result

----------------------------------------------------------------------------
(* the same instant as an aware datetime in UTC, and as a naive one *)
AsAwareUtc(dt) == NowUtc(Instant(dt))

AsNaiveUtc(dt) == UtcNow(Instant(dt))

(* C22 (as stated): the freshness tests give the same answer for one and   *)
(* the same instant whether the timestamp is naive UTC, aware UTC or aware *)
(* with another offset: for every memory entry is_expired is true exactly  *)
(* when now > cached_at + ttl_seconds, and for every Result in a file the  *)
(* disk-age test answers as it does for the same instant written in UTC.   *)
C22_FreshnessNormalizedToUtc ==
    /\ \A k \in DOMAIN memory_cache :
         LET entry == memory_cache[k]
         IN  /\ is_expired(entry, now) = (now > Instant(entry.cached_at) + entry.ttl_seconds)
             /\ is_expired(entry, now)
                  = is_expired([entry EXCEPT !.cached_at = AsNaiveUtc(@)], now)
    /\ \A pw \in ModelKeys :
         PathOf(pw) \in ResultFiles =>
            LET doc == disk[PathOf(pw)].doc
            IN  /\ disk_fresh(doc, pw[1], now)
                     = disk_fresh([doc EXCEPT !.updated_at = AsAwareUtc(@)], pw[1], now)
                /\ disk_fresh(doc, pw[1], now)
                     = disk_fresh([doc EXCEPT !.updated_at = AsNaiveUtc(@)], pw[1], now)

----------------------------------------------------------------------------
(* the TTL of each source of the enumeration: the table's value, and 120   *)
(* for codex, which the table does not list                                *)
TtlOfSource(p) ==
    CASE p = "claude" -> 60
      [] p = "openai" -> 180
      [] p = "copilot" -> 300
      [] p = "codex" -> 120

(* C23: set(result) leaves a memory entry for result's key that holds      *)
(* result, with cached_at the time of the call and ttl_seconds the table's *)
(* value for result.source, or 120 when the table does not list it; every  *)
(* source of the enumeration gets a positive integer TTL; and no step      *)
(* changes the ttl_seconds of a key's entry.                               *)
C23_SetStoresEntryWithTtl ==
    [][/\ \A pw \in ModelKeys :
            IsCall(last', "set", pw) =>
                /\ KeyOf(pw) \in DOMAIN memory_cache'
                /\ memory_cache'[KeyOf(pw)].result = Val(last'.val)
                /\ memory_cache'[KeyOf(pw)].cached_at.aware
                /\ Instant(memory_cache'[KeyOf(pw)].cached_at) = now
                /\ memory_cache'[KeyOf(pw)].ttl_seconds = TtlOfSource(pw[1])
       /\ \A p \in ProviderName : ttl_for(p) = TtlOfSource(p) /\ ttl_for(p) \in Nat \ {0}
       /\ \A k \in DOMAIN memory_cache \cap DOMAIN memory_cache' :
            memory_cache'[k].ttl_seconds = memory_cache[k].ttl_seconds]_vars

(* set was called for (codex, 1d) at time 60: its entry has the default    *)
(* TTL and that time, next to the entry of (claude, 7d) stored at time 0   *)
(* with the table's 60                                                     *)
C23_Witness ==
    /\ IsCall(last, "set", <<"codex", "1d">>)
    /\ now = 60
    /\ DOMAIN memory_cache = {"claude:7d", "codex:1d"}
    /\ memory_cache["codex:1d"].ttl_seconds = 120
    /\ memory_cache["codex:1d"].cached_at = NowUtc(60)
    /\ memory_cache["claude:7d"].ttl_seconds = 60
    /\ memory_cache["claude:7d"].cached_at = NowUtc(0)

----------------------------------------------------------------------------
(* the pass recorded in s called fetch and the request timed out: fetch    *)
(* returned the error Result of its "except httpx.TimeoutException" clause *)
TimedOut(s) ==
    /\ s.kind = "body"
    /\ s.fetch_called
    /\ IsNone(s.fetch_out.exc)
    /\ Val(s.fetch_out.val).error = Some("Request timed out")

(* the step is a pass of the loop body that ends as recorded in step' *)
PassDone == cycle.pos > 0 /\ cycle' # cycle /\ step'.provider = PollOrder[cycle.pos]

(* C24 (as stated): when the fetch of a pass times out, set is not called  *)
(* for the source, the files are as before, and the memory tier is as      *)
(* before or has lost the entry of the key.                                *)
C24_TimeoutLeavesCacheAlone ==
    [][(PassDone /\ TimedOut(step')) =>
        /\ ~step'.set_called
        /\ disk' = disk
        /\ \/ memory_cache' = memory_cache
           \/ memory_cache' = memory_after_get(cache_key(step'.provider, tui_window))]_vars

(* C24 (amended): when the fetch of a pass times out, fetch returns an     *)
(* error Result for the source and the window, and the caller hands it to  *)
(* set: the memory entry of the key becomes that error Result with         *)
(* cached_at the time of the call, every other memory entry stays as it    *)
(* was, and so does every file.                                            *)
C24_TimeoutStoredInMemoryOnly ==
    [][(PassDone /\ TimedOut(step')) =>
        LET p == step'.provider
            key == cache_key(p, tui_window)
            result == Val(step'.fetch_out.val)
        IN  /\ is_error(result)
            /\ result.provider = p
            /\ result.window = tui_window
            /\ step'.set_called
            /\ step'.set_arg = Some(result)
            /\ DOMAIN memory_cache' = DOMAIN memory_cache \cup {key}
            /\ memory_cache'[key] = CacheEntry(result, NowUtc(now), TtlOfSource(p))
            /\ \A k \in DOMAIN memory_cache \ {key} : memory_cache'[k] = memory_cache[k]
            /\ disk' = disk]_vars

(* in a second cycle the fetch for claude timed out: the memory tier holds *)
(* the error Result and the file still holds the Result of the first cycle *)
C24_Witness ==
    /\ cycle.n = 2
    /\ TimedOut(step)
    /\ step.provider = "claude"
    /\ step.set_called
    /\ "claude:7d" \in DOMAIN memory_cache
    /\ Some(memory_cache["claude:7d"].result) = step.fetch_out.val
    /\ is_error(memory_cache["claude:7d"].result)
    /\ "claude_7d.json" \in ResultFiles
    /\ IsNone(disk["claude_7d.json"].doc.error)

----------------------------------------------------------------------------
(* C25 (as stated): a window action leaves the memory tier empty, and in   *)
(* the refresh it starts every pass for a configured source calls fetch    *)
(* for the window on display and shows what fetch gave, never a Result     *)
(* that get returned.                                                      *)
C25_SwitchFetchesFresh ==
    [][/\ (cycle.pos = 0 /\ cycle'.pos = 1 /\ cycle'.switched) => DOMAIN memory_cache' = {}
       /\ (PassDone /\ cycle.switched /\ configured[step'.provider]) =>
            /\ step'.get_called
            /\ IsNone(step'.got)
            /\ step'.fetch_called]_vars

----------------------------------------------------------------------------
(* the days of each window of the enumeration: one for the shortest *)
DaysOf(w) == CASE w = "1d" -> 1 [] w = "7d" -> 7 [] w = "30d" -> 30

(* C26 (as stated): for the window of every fetch of the OpenAI adapter,   *)
(* _get_time_range returns (start, end) with end the time of the call and  *)
(* start that many days before it, and a configured fetch whose requests   *)
(* are answered well returns a Result for the window that is no error.     *)
C26_TimeRangeForEveryWindow ==
    (fetched.adapter = "openai" /\ fetched.is_configured) =>
        /\ get_time_range(fetched.window, now)
             = Returned(Some(<< now - DaysOf(fetched.window) * 86400, now >>))
        /\ (\A i \in DOMAIN fetched.requests : GoodResponse(fetched.requests[i])) =>
                /\ IsNone(fetched.out.exc)
                /\ ~IsNone(fetched.out.val)
                /\ ~is_error(Val(fetched.out.val))
                /\ Val(fetched.out.val).window = fetched.window

----------------------------------------------------------------------------
(* C27: a get served by the disk tier leaves the memory tier without an    *)
(* entry for the key; and a get of a key that has no memory entry is       *)
(* served by the disk tier again: what it returns is the Result of the     *)
(* key's file, and only when that Result's updated_at (its wall-clock      *)
(* fields read as UTC) is at most TTL-for-source before the call.          *)
C27_DiskResultNotPromoted ==
    [][\A pw \in ModelKeys :
        IsCall(last', "get", pw) =>
            /\ last'.tier = "disk" => KeyOf(pw) \notin DOMAIN memory_cache'
            /\ KeyOf(pw) \notin DOMAIN memory_cache =>
                 /\ last'.tier = "disk"
                 /\ memory_cache' = memory_cache
                 /\ ~IsNone(last'.val) =>
                      /\ PathOf(pw) \in ResultFiles
                      /\ model_dump_json(Val(last'.val)) = disk[PathOf(pw)].doc
                      /\ WallAge(disk[PathOf(pw)].doc, now) <= TtlOfSource(pw[1])
                 /\ (/\ PathOf(pw) \in ResultFiles
                     /\ WallAge(disk[PathOf(pw)].doc, now) > TtlOfSource(pw[1]))
                      => IsNone(last'.val)]_vars

(* a second get in a row of (codex, 1d) was served by the disk tier, 120   *)
(* seconds after the set: the memory tier has no entry for the key         *)
C27_Witness ==
    /\ IsCall(last, "get", <<"codex", "1d">>)
    /\ last.tier = "disk"
    /\ now = 120
    /\ "codex:1d" \in DOMAIN last_good
    /\ last_set["codex:1d"].at = 0
    /\ last.val = Some(last_good["codex:1d"])
    /\ "codex:1d" \notin DOMAIN memory_cache

----------------------------------------------------------------------------
(* C28: after set(r) the memory entry of r's key holds r as it was handed  *)
(* in, raw included; when the file was written it holds r with raw         *)
(* redacted, every other field as in r; and a get served by the memory     *)
(* tier returns r as it was handed to set.                                 *)
C28_SetKeepsArgument ==
    [][\A pw \in ModelKeys :
        /\ IsCall(last', "set", pw) =>
             LET r == Val(last'.val)
             IN  /\ memory_cache'[KeyOf(pw)].result = r
                 /\ last_set'[KeyOf(pw)].result = r
                 /\ last_set'[KeyOf(pw)].wrote =>
                      /\ disk'[PathOf(pw)].doc
                           = model_dump_json([r EXCEPT !.raw = sanitize_raw(r.raw)])
                      /\ NoSecretLeft(disk'[PathOf(pw)].doc.raw)
        /\ (IsCall(last', "get", pw) /\ last'.tier = "memory") =>
             last'.val = Some(last_set[KeyOf(pw)].result)]_vars

(* a get served by the memory tier returns the payload with the value of   *)
(* authorization as it was set, while the file of the key holds the marker *)
C28_Witness ==
    \E pw \in ModelKeys :
        /\ IsCall(last, "get", pw)
        /\ last.tier = "memory"
        /\ Val(last.val).raw = SecretRaw
        /\ Val(last.val).raw.kids[1] = Item("authorization", Leaf("Bearer xyz"))
        /\ PathOf(pw) \in ResultFiles
        /\ disk[PathOf(pw)].doc.raw.kids[1] = Item("authorization", Leaf("[REDACTED]"))
        /\ disk[PathOf(pw)].doc.updated_at = Val(last.val).updated_at

----------------------------------------------------------------------------
(* C29 (as stated): no get returns a Result whose updated_at lies more     *)
(* than TTL-for-source seconds before the time of the call, whichever tier *)
(* serves it.                                                              *)
C29_NeverOlderThanTtl ==
    \A pw \in ModelKeys :
        (IsCall(last, "get", pw) /\ ~IsNone(last.val))
        => TrueAge(Val(last.val), now) <= TtlOfSource(pw[1])

(* C29 (amended): a Result that get returns from the memory tier is the    *)
(* Result of an entry whose cached_at lies at most TTL-for-source seconds  *)
(* before the call, whatever its updated_at; a Result that get returns     *)
(* from the disk tier has an updated_at that, its wall-clock fields read   *)
(* as UTC, lies at most TTL-for-source seconds before the call.            *)
C29_FreshByTierClock ==
    \A pw \in ModelKeys :
        (IsCall(last, "get", pw) /\ ~IsNone(last.val))
        => IF last.tier = "memory"
           THEN /\ KeyOf(pw) \in DOMAIN memory_cache
                /\ memory_cache[KeyOf(pw)].result = Val(last.val)
                /\ now - Instant(memory_cache[KeyOf(pw)].cached_at) <= TtlOfSource(pw[1])
           ELSE /\ last.tier = "disk"
                /\ WallAge(Val(last.val), now) <= TtlOfSource(pw[1])

(* 60 seconds after its set, get returns from the memory tier the Result   *)
(* of (claude, 7d) that was constructed a second before the set: its       *)
(* updated_at is 61 seconds old                                            *)
C29_Witness ==
    /\ IsCall(last, "get", <<"claude", "7d">>)
    /\ last.tier = "memory"
    /\ now = 60
    /\ memory_cache["claude:7d"].cached_at = NowUtc(0)
    /\ TrueAge(Val(last.val), now) > 60

----------------------------------------------------------------------------
(* C30: every Result a fetch returns, error or not, names the adapter as   *)
(* its source and the requested window as its window, also when the        *)
(* metrics were taken from another window's data.                          *)
C30_ResultNamesAdapterAndWindow ==
    (fetched.adapter # "none" /\ IsNone(fetched.out.exc)) =>
        /\ ~IsNone(fetched.out.val)
        /\ Val(fetched.out.val).provider = fetched.adapter
        /\ Val(fetched.out.val).window = fetched.window

(* Claude was asked for 1d and answered without five_hour: the Result has  *)
(* the remaining quota and the reset time of seven_day, and the window 1d  *)
C30_Witness ==
    /\ fetched.adapter = "claude"
    /\ fetched.window = "1d"
    /\ fetched.requests = << Http(200, PartialBody) >>
    /\ IsNone(fetched.out.exc)
    /\ ~is_error(Val(fetched.out.val))
    /\ Val(fetched.out.val).metrics.remaining = Some(100 - Val(ClaudeData.seven_day).utilization)
    /\ Val(fetched.out.val).metrics.reset_at
         = Some(DateTime(Val(ClaudeData.seven_day).resets_at, TRUE, 0))
    /\ Val(fetched.out.val).window = "1d"

====
